---- MODULE Spec2Model ----
(***************************************************************************)
(* Model of the chat pipeline of chat-ai-cms (api-server):                 *)
(*   - message persistence of a chat turn (routers/chat.py,                *)
(*     routers/tenant/conversations.py),                                   *)
(*   - the scope guardrail engine and its topic matcher                    *)
(*     (services/guardrail_service.py),                                    *)
(*   - the dataset selection of retrieval (services/retrieval_service.py), *)
(*   - the endpoint handlers and the response generator's own scope check  *)
(*     (routers/chat.py, services/chat_service.py),                        *)
(*   - the background title task and document processing                   *)
(*     (services/title_generation_service.py,                              *)
(*     services/document_processing_service.py),                           *)
(*   - generation: provider selection, provider failures, the frames of    *)
(*     the stream handlers and the system prompts of both services         *)
(*     (services/ai_provider_service.py, services/chat_service.py).        *)
(* Strengths are kept in thousandths (0.7 is 700), which is exact for the  *)
(* topics used here (at most five words each).                             *)
(***************************************************************************)
EXTENDS Integers, Sequences, FiniteSets, TLC

VARIABLES
    \* ---- persistence layer (tables conversations / messages)
    messages,          \* committed rows of table messages
    title,             \* conversations.title, per conversation
    title_tasks,       \* title-generation tasks scheduled so far, per conversation
    title_attempts,    \* title-generation tasks that ran and ended, per conversation
    \* ---- one chat turn's call of _save_conversation_messages / send_message
    pc,                \* position of each turn
    turn_conv,         \* the conversation the turn writes to
    request_count,     \* len(request_messages) of the turn
    next_sequence,     \* the turn's local next_sequence after its SELECT
    is_first_exchange, \* the turn's local is_first_exchange
    loaded_title,      \* conversation.title as loaded in the turn's session
    \* ---- one guardrail evaluation (GuardrailService.validate_query)
    bot,               \* the Bot: its scopes (in list order) and datasets
    query,             \* message_content
    gpc,               \* position inside validate_query
    blocked,           \* the loop's decision: verdict, place of the blocking scope, response_type
    result,            \* what validate_query returned: <<allowed, message>>
    via,               \* which code produced the message
    runs,              \* validate_query calls made so far on this bot and query
    prev,              \* result and via of the previous call
    \* ---- the rest of an allowed turn
    citations,         \* what retrieve_context returned
    retrieval,         \* how the calls inside retrieve_context ended
    system_prompt,     \* what _build_system_prompt returned
    \* ---- one request served by an endpoint handler
    conversations,     \* table conversations: bot_id, session_id, is_active per id
    requests,          \* requests received so far
    entry,             \* the handler serving the request
    has_user,          \* request.messages holds a user message (else it is empty)
    session_id,        \* request.session_id
    tpc,               \* position of the handler
    served,            \* the calls the handler made so far, in order
    conversation,      \* what _get_or_create_conversation returned
    response,          \* the ChatResponse (or the events of the stream)
    ai_provider,       \* provider_name of the bot's TenantAIProvider record
    provider_calls,    \* completion requests the handler's service sent for this request
    frames,            \* the server-sent events the stream handler yielded so far
    \* ---- the document store (tables documents / chunks)
    documents,         \* documents.status and dataset, per document
    chunks,            \* rows of table chunks
    hits               \* the chunks retrieve_context built its citations from

convVars  == <<messages, title, title_tasks, title_attempts, pc, turn_conv, request_count,
               next_sequence, is_first_exchange, loaded_title>>
guardVars == <<bot, query, gpc, blocked, result, via, runs, prev, citations, retrieval,
               system_prompt>>
genVars   == <<ai_provider, provider_calls, frames>>
turnVars  == <<conversations, requests, entry, has_user, session_id, tpc, served,
               conversation, response, genVars>>
storeVars == <<documents, chunks, hits>>
vars      == <<convVars, guardVars, turnVars, storeVars>>

None == "None"

\* ------------------------------------------------------------------------
\* Bounds
\* ------------------------------------------------------------------------
MaxTurns == 3
MaxRequestMessages == 2
MaxScopes == 2
MaxRuns == 2
MaxRequests == 2
MaxChunks == 2
MaxTokens == 1
MaxLimit == 2

Turns == 1..MaxTurns
Conversations == {"c1", "c2"}

\* ------------------------------------------------------------------------
\* Persistence of a turn
\* ------------------------------------------------------------------------

\* select(Message).where(conversation_id == c).order_by(sequence_number.desc()).limit(1)
LastMessageSeq(c) ==
    LET seqs == {m.sequence_number : m \in {x \in messages : x.conversation_id = c}}
    IN  IF seqs = {} THEN 0 ELSE CHOOSE s \in seqs : \A o \in seqs : o <= s

\* next_sequence = (last_message.sequence_number + 1) if last_message else 1
NextSequenceOf(c) == IF LastMessageSeq(c) = 0 THEN 1 ELSE LastMessageSeq(c) + 1

\* Message(id=uuid4(), conversation_id, role, sequence_number): the id is the
\* pair (turn, position of the message inside the turn)
Message(t, k, c, role, seq) ==
    [id |-> <<t, k>>, conversation_id |-> c, role |-> role, sequence_number |-> seq]

\* rows whose response message takes the number the turn started from
TurnRows_response_not_advanced(t, c, n, first) ==
    {Message(t, k, c, "request", first + k - 1) : k \in 1..n}
        \cup {Message(t, n + 1, c, "assistant", first)}

\* the rows one call of _save_conversation_messages adds: the request messages
\* in order, numbered from first, then the response message
TurnRows(t, c, n, first) ==
    {Message(t, k, c, "request", first + k - 1) : k \in 1..n}
        \cup {Message(t, n + 1, c, "assistant", first + n)}

\* _save_conversation_messages up to the result of its SELECT (the first await)
SelectLastMessage(t) ==
    /\ pc[t] = "idle"
    /\ \E c \in Conversations, n \in 0..MaxRequestMessages :
       \E lt \in {None, title[c]} :
          /\ turn_conv' = [turn_conv EXCEPT ![t] = c]
          /\ request_count' = [request_count EXCEPT ![t] = n]
          /\ loaded_title' = [loaded_title EXCEPT ![t] = lt]
          /\ next_sequence' = [next_sequence EXCEPT ![t] = NextSequenceOf(c)]
          /\ is_first_exchange' = [is_first_exchange EXCEPT ![t] = (NextSequenceOf(c) = 1)]
    /\ pc' = [pc EXCEPT ![t] = "selected"]
    /\ UNCHANGED <<messages, title, title_tasks, title_attempts>>
    /\ UNCHANGED <<guardVars, turnVars, storeVars>>

\* _save_conversation_messages from the first db.add to the scheduling of the
\* title task: the INSERTs go out with db.commit()
CommitMessages(t) ==
    /\ pc[t] = "selected"
    /\ messages' = messages \cup
          TurnRows(t, turn_conv[t], request_count[t], next_sequence[t])
    /\ title_tasks' =
          IF is_first_exchange[t] /\ loaded_title[t] = None
          THEN [title_tasks EXCEPT ![turn_conv[t]] = @ + 1]
          ELSE title_tasks
    /\ pc' = [pc EXCEPT ![t] = "done"]
    /\ UNCHANGED <<title, title_attempts, turn_conv, request_count, next_sequence,
                   is_first_exchange, loaded_title>>
    /\ UNCHANGED <<guardVars, turnVars, storeVars>>

\* tenant endpoint send_message: the synchronous session reads the last
\* message, adds the user and the assistant message and commits without
\* yielding to the event loop
send_message(t) ==
    /\ pc[t] = "idle"
    /\ \E c \in Conversations :
          LET next_seq == NextSequenceOf(c) IN
          /\ messages' = messages \cup
                {Message(t, 1, c, "request", next_seq),
                 Message(t, 2, c, "assistant", next_seq + 1)}
          /\ turn_conv' = [turn_conv EXCEPT ![t] = c]
          /\ next_sequence' = [next_sequence EXCEPT ![t] = next_seq]
    /\ request_count' = [request_count EXCEPT ![t] = 1]
    /\ pc' = [pc EXCEPT ![t] = "done"]
    /\ UNCHANGED <<title, title_tasks, title_attempts, is_first_exchange, loaded_title>>
    /\ UNCHANGED <<guardVars, turnVars, storeVars>>

\* a run that leaves a placeholder title behind when it fails
TitleAfter_placeholder_on_failure(c, outcome) ==
    IF title[c] # None \/ Cardinality({m \in messages : m.conversation_id = c}) < 2
    THEN title[c]
    ELSE IF outcome = "stored" THEN "generated" ELSE "Untitled"

\* how one run of generate_title_for_conversation can end
TitleOutcomes == {"stored", "provider_error", "commit_error"}

\* conversations.title after one run of the task on conversation c: the run
\* returns early when a title exists or fewer than two messages are stored,
\* and an exception is logged and swallowed
TitleAfter(c, outcome) ==
    IF /\ title[c] = None
       /\ Cardinality({m \in messages : m.conversation_id = c}) >= 2
       /\ outcome = "stored"
    THEN "generated"
    ELSE title[c]

\* _generate_title_background / generate_title_for_conversation: a scheduled
\* task runs once, after its sleep, and ends whatever happens inside it
GenerateTitleBackground(c) ==
    /\ title_attempts[c] < title_tasks[c]
    /\ title_attempts' = [title_attempts EXCEPT ![c] = @ + 1]
    /\ \E outcome \in TitleOutcomes :
          title' = [title EXCEPT ![c] = TitleAfter(c, outcome)]
    /\ UNCHANGED <<messages, title_tasks, pc, turn_conv, request_count,
                   next_sequence, is_first_exchange, loaded_title>>
    /\ UNCHANGED <<guardVars, turnVars, storeVars>>

\* ------------------------------------------------------------------------
\* Strings as the code handles them (ASCII text)
\* ------------------------------------------------------------------------
UpperCase == "ABCDEFGHIJKLMNOPQRSTUVWXYZ"
LowerCase == "abcdefghijklmnopqrstuvwxyz"
Digits == "0123456789"

CharAt(s, i) == SubSeq(s, i, i)

LowerChar(ch) ==
    IF \E i \in 1..Len(UpperCase) : CharAt(UpperCase, i) = ch
    THEN CharAt(LowerCase, CHOOSE i \in 1..Len(UpperCase) : CharAt(UpperCase, i) = ch)
    ELSE ch

\* str.lower()
RECURSIVE lower(_)
lower(s) ==
    IF Len(s) = 0 THEN "" ELSE LowerChar(CharAt(s, 1)) \o lower(SubSeq(s, 2, Len(s)))

\* sub in s
Contains(sub, s) ==
    \E i \in 1..(Len(s) - Len(sub) + 1) : SubSeq(s, i, i + Len(sub) - 1) = sub

\* str.split(): the words between runs of blanks
RECURSIVE SplitFrom(_, _, _)
SplitFrom(s, i, word) ==
    IF i > Len(s) THEN (IF word = "" THEN <<>> ELSE <<word>>)
    ELSE IF CharAt(s, i) = " "
         THEN (IF word = "" THEN <<>> ELSE <<word>>) \o SplitFrom(s, i + 1, "")
         ELSE SplitFrom(s, i + 1, word \o CharAt(s, i))

split(s) == SplitFrom(s, 1, "")

Range(seq) == {seq[i] : i \in DOMAIN seq}

\* sep.join(items)
RECURSIVE join(_, _)
join(sep, items) ==
    IF Len(items) = 0 THEN ""
    ELSE IF Len(items) = 1 THEN items[1]
    ELSE items[1] \o sep \o join(sep, Tail(items))

\* str(n) for n >= 0
RECURSIVE str(_)
str(n) == IF n < 10 THEN CharAt(Digits, n + 1)
          ELSE str(n \div 10) \o CharAt(Digits, (n % 10) + 1)

\* sum(1 for item in items if item in content)
CountContained(items, content) ==
    Cardinality({i \in DOMAIN items : Contains(items[i], content)})

\* ------------------------------------------------------------------------
\* Topic matcher (GuardrailService._get_topic_match_strength)
\* ------------------------------------------------------------------------
math_topics == {"math", "mathematics", "algebra", "calculus", "geometry"}

math_indicators == <<
    "derivative", "integral", "limit", "theorem", "proof", "equation", "formula",
    "solve", "calculate", "compute", "factor", "expand", "simplify", "graph",
    "function", "variable", "coefficient", "polynomial", "quadratic", "linear",
    "trigonometry", "sine", "cosine", "tangent", "logarithm", "exponential",
    "matrix", "vector", "angle", "triangle", "circle", "radius", "diameter",
    "area", "volume", "perimeter", "pythagorean", "hypotenuse", "adjacent",
    "probability", "statistics", "mean", "median", "mode", "standard deviation",
    "fraction", "decimal", "percentage", "ratio", "proportion", "number" >>

\* the ASCII entries of math_symbols (the list also holds four non-ASCII signs,
\* which no ASCII query contains)
math_symbols == << "+", "-", "*", "/", "=", "<", ">", "x^", "y=" >>

domain_support_topics == {"support", "customer support", "technical support", "help"}

domain_support_indicators == <<
    "help", "issue", "problem", "bug", "error", "fix", "broken", "not working",
    "account", "login", "password", "billing", "payment", "subscription",
    "refund", "cancel", "upgrade", "downgrade", "feature", "how to", "tutorial" >>

support_terms == {"support", "help", "account", "login", "technical"}

support_indicators == <<
    "password", "reset", "login", "account", "profile", "username",
    "recover", "access", "issue", "problem", "help", "support" >>

Max(a, b) == IF a >= b THEN a ELSE b
Min(a, b) == IF a <= b THEN a ELSE b

\* a domain strength that rates a symbol or two vocabulary words like one
\* vocabulary word
_get_domain_specific_strength_one_tier(content_lower, topics) ==
    LET lowered        == {lower(topics[i]) : i \in DOMAIN topics}
        strong_matches == CountContained(math_indicators, content_lower)
        symbol_matches == CountContained(math_symbols, content_lower)
        matches        == CountContained(domain_support_indicators, content_lower)
        is_math        == math_topics \cap lowered # {}
        is_support     == domain_support_topics \cap lowered # {}
    IN  IF is_math /\ (strong_matches >= 1 \/ symbol_matches >= 1) THEN 600
        ELSE IF is_support /\ matches >= 2 THEN 700
        ELSE IF is_support /\ matches >= 1 THEN 500
        ELSE 0

_get_domain_specific_strength(content_lower, topics) ==
    LET lowered        == {lower(topics[i]) : i \in DOMAIN topics}
        strong_matches == CountContained(math_indicators, content_lower)
        symbol_matches == CountContained(math_symbols, content_lower)
        matches        == CountContained(domain_support_indicators, content_lower)
        is_math        == math_topics \cap lowered # {}
        is_support     == domain_support_topics \cap lowered # {}
    IN  IF is_math /\ (strong_matches >= 2 \/ symbol_matches >= 1) THEN 800
        ELSE IF is_math /\ strong_matches >= 1 THEN 600
        ELSE IF is_support /\ matches >= 2 THEN 700
        ELSE IF is_support /\ matches >= 1 THEN 500
        ELSE 0

\* the strength one topic of the list contributes (the body of the for loop)
TopicStrength(content_lower, topic, topics) ==
    LET topic_lower    == lower(topic)
        direct         == IF Contains(topic_lower, content_lower) THEN 1000 ELSE 0
        content_words  == Range(split(content_lower))
        topic_words    == split(topic_lower)
        matching_words == content_words \cap Range(topic_words)
        overlap        == IF matching_words # {}
                          THEN (600 * Cardinality(matching_words)) \div Len(topic_words)
                          ELSE 0
        domain         == _get_domain_specific_strength(content_lower, topics)
        support        == IF /\ support_terms \cap Range(topics) # {}
                             /\ \E i \in DOMAIN support_indicators :
                                    Contains(support_indicators[i], content_lower)
                          THEN 800 ELSE 0
    IN  Max(Max(direct, overlap), Max(domain, support))

_get_topic_match_strength(content, topics) ==
    LET content_lower == lower(content)
        strengths == {TopicStrength(content_lower, topics[i], topics) : i \in DOMAIN topics}
        max_strength == IF strengths = {} THEN 0
                        ELSE CHOOSE m \in strengths : \A o \in strengths : o <= m
    IN  Min(max_strength, 1000)

\* ------------------------------------------------------------------------
\* Topic lists and queries the evaluations are run on
\* ------------------------------------------------------------------------
MathTopics == <<"mathematics", "machine learning", "linear algebra basics">>
OffLimits == <<"politics", "guitar lessons">>
SupportTopics == <<"billing", "support">>

GuardQueries ==
    {"What is the capital of France?", "Solve x^2+5x+6=0", "learning guitar",
     "guitar basics", "Explain the theorem", "Explain the derivative formula",
     "The Mathematics of politics", "Tell me about politics"}

KnowledgeQueries ==
    {"What is the capital of France?", "Solve x^2+5x+6=0", "How do I reset my password?"}

RedirectQueries ==
    {"How do I reset my password?", "What's the weather today?", "Tell me about politics"}

Queries == GuardQueries \cup KnowledgeQueries \cup RedirectQueries
TopicLists == {<<>>, MathTopics, OffLimits, SupportTopics}

\* _get_topic_match_strength on the queries and topic lists above, computed once
StrengthTable ==
    [content \in Queries, topics \in TopicLists |->
        _get_topic_match_strength(content, topics)]

ForbiddenThreshold == 300

\* _matches_topics
_matches_topics(content, topics) == StrengthTable[content, topics] > ForbiddenThreshold

\* ------------------------------------------------------------------------
\* Scope guardrail engine (GuardrailService.validate_query)
\* ------------------------------------------------------------------------
\* A scope is [name, is_active, guardrails, dataset_filters]; guardrails holds
\* strictness_level and refusal_message (None when the key is missing),
\* allowed_topics and forbidden_topics (empty when missing), and
\* knowledge_boundaries and response_guidelines with the defaults the code's
\* .get() calls give a missing key.
StrictThreshold == 700
ModerateThreshold == 300
PartialThreshold == 500
LenientThreshold == 100

\* a dict.get(key, default) that forgets its default
Get_without_default(value, default) == value

\* dict.get(key, default) of a string-valued key
Get(value, default) == IF value = None THEN default ELSE value

\* a forbidden-topic test that only strict scopes apply
ForbiddenCheck_only_strict(guardrails, message_content) ==
    /\ guardrails.strictness_level = "strict"
    /\ guardrails.forbidden_topics # <<>>
    /\ _matches_topics(message_content, guardrails.forbidden_topics)

\* the forbidden-topic test of validate_query: forbidden_topics and
\* self._matches_topics(message_content, forbidden_topics)
ForbiddenCheck(guardrails, message_content) ==
    /\ guardrails.forbidden_topics # <<>>
    /\ _matches_topics(message_content, guardrails.forbidden_topics)

\* the body of the for loop of validate_query for one active scope: the
\* response_type it blocks with, "allow" for its return True, None, or "next"
\* when the loop goes on to the next scope
EvaluateScope(scope, message_content) ==
    LET guardrails       == scope.guardrails
        strictness_level == Get(guardrails.strictness_level, "moderate")
        allowed_topics   == guardrails.allowed_topics
        topic_match_strength == StrengthTable[message_content, allowed_topics]
    IN  IF ForbiddenCheck(guardrails, message_content) THEN "forbidden"
        ELSE IF allowed_topics = <<>> THEN "next"
        ELSE IF strictness_level = "strict"
             THEN (IF topic_match_strength < StrictThreshold THEN "off_topic" ELSE "next")
        ELSE IF strictness_level = "moderate"
             THEN (IF topic_match_strength < ModerateThreshold THEN "redirect"
                   ELSE IF topic_match_strength < PartialThreshold THEN "allow"
                   ELSE "next")
        ELSE IF strictness_level = "lenient"
             THEN (IF topic_match_strength < LenientThreshold THEN "gentle_redirect"
                   ELSE "next")
        ELSE "next"

Allowed(i) == [allowed |-> TRUE, response_type |-> None, scope |-> i]
Blocked(i, response_type) ==
    [allowed |-> FALSE, response_type |-> response_type, scope |-> i]

\* for scope in bot.scopes, from the i-th scope on
RECURSIVE ScopeLoop(_, _, _)
ScopeLoop(scopes, message_content, i) ==
    IF i > Len(scopes) THEN Allowed(0)
    ELSE IF ~scopes[i].is_active THEN ScopeLoop(scopes, message_content, i + 1)
    ELSE LET outcome == EvaluateScope(scopes[i], message_content)
         IN  IF outcome = "next" THEN ScopeLoop(scopes, message_content, i + 1)
             ELSE IF outcome = "allow" THEN Allowed(i)
             ELSE Blocked(i, outcome)

\* the decision of validate_query: allowed or not, and when blocked the scope
\* (its place in bot.scopes) and the response_type handed to _get_smart_response
validate_query(scopes, message_content) ==
    IF scopes = <<>> THEN Allowed(0) ELSE ScopeLoop(scopes, message_content, 1)

\* ------------------------------------------------------------------------
\* Redirect messages (GuardrailService._get_smart_response)
\* ------------------------------------------------------------------------
\* what the completion call can give back once stripped
AiResponses ==
    {"Happy to help with my own topics instead. What would you like to know?", ""}

_format_topic_list(topics) ==
    IF Len(topics) = 1 THEN topics[1]
    ELSE IF Len(topics) = 2 THEN topics[1] \o " and " \o topics[2]
    ELSE join(", ", SubSeq(topics, 1, Len(topics) - 1)) \o ", and " \o topics[Len(topics)]

_get_topic_examples(topics) ==
    IF topics = <<>> THEN "my specialized areas"
    ELSE IF Len(topics) <= 3 THEN join(", ", topics)
    ELSE join(", ", SubSeq(topics, 1, 3)) \o " and other related topics"

\* random.sample(population, k): k different members in any order; no
\* value at all (the call raises ValueError) when k exceeds the population
random_sample(population, k) ==
    {[i \in 1..k |-> population[f[i]]] :
        f \in {g \in [1..k -> DOMAIN population] :
                  \A a, b \in 1..k : a # b => g[a] # g[b]}}

\* an enhancement that always draws three suggestions
_enhance_refusal_message_three(base_message, allowed_topics) ==
    IF allowed_topics = <<>> THEN {base_message}
    ELSE {base_message \o " I can help with " \o _format_topic_list(suggestions)
              \o ". How can I assist?" :
            suggestions \in random_sample(allowed_topics, 3)}

\* the texts _enhance_refusal_message can return
_enhance_refusal_message(base_message, allowed_topics) ==
    IF allowed_topics = <<>> THEN {base_message}
    ELSE {base_message \o " I can help with " \o _format_topic_list(suggestions)
              \o ". How can I assist?" :
            suggestions \in random_sample(allowed_topics, Min(3, Len(allowed_topics)))}

_generate_fallback_response(allowed_topics, response_type) ==
    LET topics_text == _get_topic_examples(allowed_topics)
    IN  IF allowed_topics # <<>> /\ response_type = "forbidden"
        THEN "I can't discuss that topic. I can help with " \o topics_text
                 \o ". What would you like to know?"
        ELSE IF allowed_topics # <<>> /\ response_type = "off_topic"
        THEN "That's outside my expertise. I specialize in " \o topics_text
                 \o ". How can I help?"
        ELSE IF allowed_topics # <<>> /\ response_type = "redirect"
        THEN "I focus on " \o topics_text
                 \o ". Could you ask about one of these areas instead?"
        ELSE IF allowed_topics # <<>> /\ response_type = "gentle_redirect"
        THEN "While that's interesting, I'm best at " \o topics_text
                 \o ". What can I help you with?"
        ELSE "I can help with my specialized areas. What questions do you have?"

\* the except branch of _get_smart_response: does the custom refusal message apply
UsesCustomMessage(guardrails, response_type) ==
    /\ guardrails.refusal_message \notin {None, ""}
    /\ response_type \in {"forbidden", "off_topic"}

\* the texts the except branch of _get_smart_response can return
FallbackResponses(guardrails, response_type) ==
    IF UsesCustomMessage(guardrails, response_type)
    THEN _enhance_refusal_message(guardrails.refusal_message, guardrails.allowed_topics)
    ELSE {_generate_fallback_response(guardrails.allowed_topics, response_type)}

NoDecision == Allowed(0)
NoResult == [allowed |-> TRUE, message |-> None]
NoPrev == [allowed |-> TRUE, message |-> None, via |-> None, response_type |-> None]

\* validate_query up to its return (allowed) or to the completion call of
\* _generate_ai_guardrail_response (blocked)
ValidateQuery ==
    /\ gpc = "validate"
    /\ runs' = runs + 1
    /\ LET decision == validate_query(bot.scopes, query)
       IN  /\ blocked' = decision
           /\ IF decision.allowed
              THEN /\ result' = [allowed |-> TRUE, message |-> None]
                   /\ gpc' = "returned"
              ELSE /\ result' = result
                   /\ gpc' = "ai_call"
    /\ UNCHANGED <<bot, query, via, prev, citations, retrieval, system_prompt>>
    /\ UNCHANGED <<convVars, turnVars, storeVars>>

\* the completion call answers: validate_query returns False and the text
AiGuardrailResponse ==
    /\ gpc = "ai_call"
    /\ \E ai_response \in AiResponses :
          result' = [allowed |-> FALSE, message |-> ai_response]
    /\ via' = "ai"
    /\ gpc' = "returned"
    /\ UNCHANGED <<bot, query, blocked, runs, prev, citations, retrieval, system_prompt>>
    /\ UNCHANGED <<convVars, turnVars, storeVars>>

\* the completion call raises: the except branch of _get_smart_response
AiGuardrailFailure ==
    /\ gpc = "ai_call"
    /\ LET guardrails == bot.scopes[blocked.scope].guardrails
       IN  /\ \E text \in FallbackResponses(guardrails, blocked.response_type) :
                 result' = [allowed |-> FALSE, message |-> text]
           /\ via' = IF UsesCustomMessage(guardrails, blocked.response_type)
                     THEN "custom_fallback" ELSE "template_fallback"
    /\ gpc' = "returned"
    /\ UNCHANGED <<bot, query, blocked, runs, prev, citations, retrieval, system_prompt>>
    /\ UNCHANGED <<convVars, turnVars, storeVars>>

\* the same query is sent again to the same bot
NextRequest ==
    /\ gpc = "returned"
    /\ runs < MaxRuns
    /\ prev' = [allowed |-> result.allowed, message |-> result.message, via |-> via,
                response_type |-> blocked.response_type]
    /\ gpc' = "validate"
    /\ blocked' = NoDecision
    /\ result' = NoResult
    /\ via' = None
    /\ UNCHANGED <<bot, query, runs, citations, retrieval, system_prompt>>
    /\ UNCHANGED <<convVars, turnVars, storeVars>>

\* ------------------------------------------------------------------------
\* Prompt restrictions (GuardrailService.build_knowledge_restriction_prompt,
\* should_use_context_only)
\* ------------------------------------------------------------------------
\* the restrictions one active scope appends, in the order the code appends them
ScopeRestrictions(scope) ==
    LET guardrails       == scope.guardrails
        strictness_level == Get(guardrails.strictness_level, "moderate")
        knowledge        == guardrails.knowledge_boundaries
        guidelines       == guardrails.response_guidelines
        allowed          == join(", ", guardrails.allowed_topics)
        forbidden        == join(", ", guardrails.forbidden_topics)
    IN  (IF knowledge.strict_mode
         THEN <<"IMPORTANT: You must ONLY use information from the provided context and knowledge base. Do not use your general training knowledge for answers.">>
         ELSE <<>>)
        \o (IF knowledge.allowed_sources # <<>>
            THEN <<"Only reference information from these sources: "
                     \o join(", ", knowledge.allowed_sources)>>
            ELSE <<>>)
        \o (IF guardrails.allowed_topics = <<>> THEN <<>>
            ELSE IF strictness_level = "strict"
            THEN <<"You ONLY answer questions directly related to: " \o allowed
                     \o ". Refuse any questions outside these exact topics.">>
            ELSE IF strictness_level = "moderate"
            THEN <<"You specialize in: " \o allowed
                     \o ". For questions somewhat related to these topics, provide helpful guidance. For unrelated questions, politely redirect to your areas of expertise.">>
            ELSE IF strictness_level = "lenient"
            THEN <<"Your primary expertise is in: " \o allowed
                     \o ". Try to be helpful while gently guiding conversations toward these topics when appropriate.">>
            ELSE <<>>)
        \o (IF guardrails.forbidden_topics # <<>>
            THEN <<"Never discuss or provide information about: " \o forbidden
                     \o ". Always decline such requests politely.">>
            ELSE <<>>)
        \o (IF guidelines.present /\ guidelines.max_response_length > 0
            THEN <<"Keep responses under " \o str(guidelines.max_response_length)
                     \o " words.">>
            ELSE <<>>)
        \o (IF guidelines.present /\ guidelines.require_citations
            THEN <<"Always cite your sources when using information from the context.">>
            ELSE <<>>)
        \o (IF guidelines.present /\ guidelines.maintain_friendly_tone
            THEN <<"Always maintain a helpful and friendly tone, even when redirecting topics.">>
            ELSE <<>>)

\* the restrictions list after the loop over bot.scopes, from the i-th scope on
RECURSIVE Restrictions(_, _)
Restrictions(scopes, i) ==
    IF i > Len(scopes) THEN <<>>
    ELSE (IF scopes[i].is_active THEN ScopeRestrictions(scopes[i]) ELSE <<>>)
             \o Restrictions(scopes, i + 1)

Bulleted(lines) == [i \in DOMAIN lines |-> "- " \o lines[i]]

build_knowledge_restriction_prompt(scopes) ==
    LET restrictions == Restrictions(scopes, 1)
    IN  IF restrictions # <<>>
        THEN "\n\nKNOWLEDGE AND SCOPE RESTRICTIONS:\n" \o join("\n", Bulleted(restrictions))
        ELSE ""

\* a context-only test that also counts inactive scopes
should_use_context_only_any_scope(scopes) ==
    \E i \in DOMAIN scopes : scopes[i].guardrails.knowledge_boundaries.strict_mode

should_use_context_only(scopes) ==
    \E i \in DOMAIN scopes :
        scopes[i].is_active /\ scopes[i].guardrails.knowledge_boundaries.strict_mode

\* ------------------------------------------------------------------------
\* Retrieval (RetrievalService.retrieve_context), at the grain of datasets:
\* every dataset holds one completed document of one embedded chunk
\* ------------------------------------------------------------------------
DatasetStore ==
    {[id |-> "d1", tenant_id |-> "t1", is_active |-> TRUE,  tags |-> {"math"}],
     [id |-> "d2", tenant_id |-> "t1", is_active |-> TRUE,  tags |-> {"support"}],
     [id |-> "d3", tenant_id |-> "t1", is_active |-> FALSE, tags |-> {"math"}],
     [id |-> "d4", tenant_id |-> "t2", is_active |-> TRUE,  tags |-> {"math"}]}

DatasetOrder == <<"d1", "d2", "d3", "d4">>

DatasetStoreIds == {d.id : d \in DatasetStore}

\* the conditions scope_filters collects from the active scopes
ScopeFilters(bot_scopes) ==
    {[tags |-> Range(bot_scopes[i].dataset_filters.tags)] :
        i \in {j \in DOMAIN bot_scopes :
                  /\ bot_scopes[j].is_active
                  /\ bot_scopes[j].dataset_filters.tags # <<>>}}

\* Dataset.metadata is the declarative MetaData object, not the column
\* meta_data: subscripting it for a metadata filter of an active scope raises,
\* and retrieve_context returns [] from its outer except
FilterRaises(bot_scopes, bot_datasets) ==
    /\ bot_datasets = <<>>
    /\ \E i \in DOMAIN bot_scopes :
          bot_scopes[i].is_active /\ bot_scopes[i].dataset_filters.metadata # {}

\* the datasets chunk_query admits (the query is built and never executed)
chunk_query(tenant_id, bot_scopes, bot_datasets) ==
    {d.id : d \in {x \in DatasetStore :
        /\ x.tenant_id = tenant_id
        /\ x.is_active
        /\ IF bot_datasets # <<>> THEN x.id \in Range(bot_datasets)
           ELSE IF bot_scopes # <<>> /\ ScopeFilters(bot_scopes) # {}
           THEN \E f \in ScopeFilters(bot_scopes) : f.tags \cap x.tags # {}
           ELSE TRUE}}

\* the datasets basic_query, the keyword search that is executed, admits
basic_query(tenant_id, bot_datasets) ==
    {d.id : d \in {x \in DatasetStore :
        /\ x.tenant_id = tenant_id
        /\ x.is_active
        /\ (bot_datasets # <<>> => x.id \in Range(bot_datasets))}}

\* a fallback query without the condition on Dataset.is_active
fallback_query_inactive_too(bot_datasets) ==
    IF bot_datasets = <<>> THEN {}
    ELSE {d.id : d \in {x \in DatasetStore : x.id \in Range(bot_datasets)}}

\* the datasets fallback_query admits, run when the keyword search raised
fallback_query(bot_datasets) ==
    IF bot_datasets = <<>> THEN {}
    ELSE {d.id : d \in {x \in DatasetStore :
             x.id \in Range(bot_datasets) /\ x.is_active}}

\* a search that answers from the datasets of its queries even when the
\* embedding call or the fallback query raised
SearchedDatasets_errors_ignored(tenant_id, bot_scopes, bot_datasets, outcome) ==
    IF outcome = "keyword_error" THEN fallback_query(bot_datasets)
    ELSE basic_query(tenant_id, bot_datasets)

\* the datasets retrieve_context can draw citations from, by how its calls end
SearchedDatasets(tenant_id, bot_scopes, bot_datasets, outcome) ==
    IF FilterRaises(bot_scopes, bot_datasets) THEN {}
    ELSE IF outcome = "keyword_ok" THEN basic_query(tenant_id, bot_datasets)
    ELSE IF outcome = "keyword_error" THEN fallback_query(bot_datasets)
    ELSE {}

RetrievalOutcomes == {"keyword_ok", "keyword_error", "fallback_error", "embedding_error"}

\* one citation per searched dataset
CitationsOf(ids) ==
    LET kept == SelectSeq(DatasetOrder, LAMBDA id : id \in ids)
    IN  [i \in DOMAIN kept |->
            [document_title |-> "Handbook of " \o kept[i],
             content |-> "Text stored in " \o kept[i],
             dataset_id |-> kept[i]]]

\* ------------------------------------------------------------------------
\* Prompt assembler (AIProviderService._build_system_prompt)
\* ------------------------------------------------------------------------
BotSystemPrompt == "You are a helpful assistant."

RECURSIVE SourceLines(_, _)
SourceLines(context_citations, i) ==
    IF i > Len(context_citations) THEN <<>>
    ELSE <<"Source " \o str(i) \o ": " \o context_citations[i].document_title,
           context_citations[i].content, "">>
             \o SourceLines(context_citations, i + 1)

ContextOnlyDirective ==
    "IMPORTANT: Base your answer ONLY on the information provided above. If the context doesn't contain enough information to answer the question, say so explicitly. Do not use your general knowledge."
UseContextDirective ==
    "Please use this context to provide accurate and helpful responses. Always cite your sources when using information from the context."

_build_system_prompt(scopes, context_citations) ==
    LET scope_restrictions == build_knowledge_restriction_prompt(scopes)
        context_parts ==
            <<"Here is relevant context to help answer the user's question:", "">>
                \o SourceLines(context_citations, 1)
                \o <<IF should_use_context_only(scopes)
                     THEN ContextOnlyDirective ELSE UseContextDirective>>
        parts == <<BotSystemPrompt>>
                    \o (IF scope_restrictions # "" THEN <<scope_restrictions>> ELSE <<>>)
                    \o (IF context_citations # <<>>
                        THEN <<join("\n", context_parts)>> ELSE <<>>)
    IN  join("\n\n", parts)

\* Scope.name of the bot's scopes, by place
ScopeName(i) == "Scope " \o str(i)

\* ChatService._get_scope_instructions: fixed guidelines and the names of the
\* active scopes, or nothing for a bot without active scope
_get_scope_instructions(scopes) ==
    LET active == SelectSeq([i \in DOMAIN scopes |-> <<i, scopes[i].is_active>>],
                            LAMBDA x : x[2])
        instructions ==
            <<"IMPORTANT GUIDELINES:",
              "- Only answer questions that relate to your configured knowledge domains",
              "- Use ONLY the information provided in your knowledge base context",
              "- If no relevant context is provided, politely decline to answer",
              "- Always stay within your defined scope boundaries",
              "\nYour expertise areas include:">>
                \o [k \in DOMAIN active |-> "- " \o ScopeName(active[k][1])]
    IN  IF active = <<>> THEN "" ELSE join("\n", instructions)

ChatServiceDirective ==
    "Please use this context to provide accurate and helpful responses. Always cite your sources when using information from the context. Stay within the boundaries of the provided knowledge."

\* ChatService._build_system_prompt: one closing directive, whatever the
\* scopes' knowledge boundaries
ChatService_build_system_prompt(scopes, context_citations) ==
    LET scope_instructions == _get_scope_instructions(scopes)
        context_parts ==
            <<"Here is relevant context from your knowledge base to help answer the user's question:",
              "">>
                \o SourceLines(context_citations, 1)
                \o <<ChatServiceDirective>>
        parts == <<BotSystemPrompt>>
                    \o (IF scope_instructions # "" THEN <<scope_instructions>> ELSE <<>>)
                    \o (IF context_citations # <<>>
                        THEN <<join("\n", context_parts)>> ELSE <<>>)
    IN  join("\n\n", parts)

\* an allowed turn goes on to retrieve_context
RetrieveContext ==
    /\ gpc = "returned"
    /\ result.allowed
    /\ \E outcome \in RetrievalOutcomes :
          /\ citations' = CitationsOf(SearchedDatasets(bot.tenant_id, bot.scopes,
                                                       bot.datasets, outcome))
          /\ retrieval' = outcome
    /\ gpc' = "retrieved"
    /\ UNCHANGED <<bot, query, blocked, result, via, runs, prev, system_prompt>>
    /\ UNCHANGED <<convVars, turnVars, storeVars>>

\* ... and to generate_response, which first builds the system prompt
BuildSystemPrompt ==
    /\ gpc = "retrieved"
    /\ system_prompt' = _build_system_prompt(bot.scopes, citations)
    /\ gpc' = "prompted"
    /\ UNCHANGED <<bot, query, blocked, result, via, runs, prev, citations, retrieval>>
    /\ UNCHANGED <<convVars, turnVars, storeVars>>

\* ------------------------------------------------------------------------
\* Bots, scopes and queries the evaluations are run on
\* ------------------------------------------------------------------------
DefaultKnowledge == [strict_mode |-> FALSE, allowed_sources |-> <<>>]
NoGuidelines ==
    [present |-> FALSE, max_response_length |-> 0, require_citations |-> FALSE,
     maintain_friendly_tone |-> TRUE]
NoFilters == [tags |-> <<>>, metadata |-> {}]

Guardrails(strictness, allowed, forbidden, refusal, knowledge, guidelines) ==
    [strictness_level |-> strictness, allowed_topics |-> allowed,
     forbidden_topics |-> forbidden, refusal_message |-> refusal,
     knowledge_boundaries |-> knowledge, response_guidelines |-> guidelines]

Scope(active, guardrails, filters) ==
    [is_active |-> active, guardrails |-> guardrails, dataset_filters |-> filters]

\* strict, moderate, lenient, a level the code does not know, and no level
StrictnessLevels == {"strict", "moderate", "lenient", "custom", None}

\* bots of up to MaxScopes scopes drawn from scopeSet, in every order
Bots(scopeSet, datasetLists) ==
    {[tenant_id |-> "t1", scopes |-> scopes, datasets |-> datasets] :
        scopes \in UNION {[1..n -> scopeSet] : n \in 0..MaxScopes},
        datasets \in datasetLists}

GuardScopes ==
    {Scope(active, Guardrails(level, topics[1], topics[2], None, DefaultKnowledge,
                              NoGuidelines), NoFilters) :
        active \in BOOLEAN, level \in StrictnessLevels,
        topics \in {<<MathTopics, <<>> >>, <<MathTopics, OffLimits>>, << <<>>, OffLimits>>}}

KnowledgeProfiles ==
    {Guardrails("strict", MathTopics, OffLimits, None,
                [strict_mode |-> TRUE, allowed_sources |-> <<"handbook">>],
                [present |-> TRUE, max_response_length |-> 100,
                 require_citations |-> TRUE, maintain_friendly_tone |-> TRUE]),
     Guardrails(None, SupportTopics, <<>>, None, DefaultKnowledge, NoGuidelines),
     Guardrails("lenient", MathTopics, <<>>, None, DefaultKnowledge,
                [present |-> TRUE, max_response_length |-> 0,
                 require_citations |-> FALSE, maintain_friendly_tone |-> TRUE])}

KnowledgeFilters ==
    {NoFilters, [tags |-> <<"math">>, metadata |-> {}],
     [tags |-> <<>>, metadata |-> {<<"language", "en">>}]}

KnowledgeScopes ==
    {Scope(active, guardrails, filters) :
        active \in BOOLEAN, guardrails \in KnowledgeProfiles, filters \in KnowledgeFilters}

CustomRefusal == "Sorry, this assistant only covers billing and support."

RedirectScopes ==
    {Scope(TRUE, Guardrails(level, topics[1], topics[2], refusal, DefaultKnowledge,
                            NoGuidelines), NoFilters) :
        level \in {"strict", "moderate", "lenient"},
        topics \in {<<SupportTopics, OffLimits>>, << <<>>, OffLimits>>},
        refusal \in {None, "", CustomRefusal}}

\* no guardrail evaluation under way
GuardIdle ==
    /\ bot = [tenant_id |-> "t1", scopes |-> <<>>, datasets |-> <<>>]
    /\ query = ""
    /\ gpc = "idle"
    /\ blocked = NoDecision
    /\ result = NoResult
    /\ via = None
    /\ runs = 0
    /\ prev = NoPrev
    /\ citations = <<>>
    /\ retrieval = None
    /\ system_prompt = ""

\* ids uuid4() hands out to the conversations created while serving requests
NewId(k) == "n" \o str(k)

NewIds == {NewId(k) : k \in 1..MaxRequests}

\* every id a row of table conversations can have
ConversationIds == Conversations \cup {"c3"} \cup NewIds

\* a row of table conversations
Conversation(id, bot_id, session, is_active) ==
    [id |-> id, bot_id |-> bot_id, session_id |-> session, is_active |-> is_active]

\* the tenant each bot belongs to
BotTenant == [b \in {"b1", "b2"} |-> IF b = "b1" THEN "t1" ELSE "t2"]

\* the conversations stored before the first request: two of bot b1, one of
\* them closed, and one of a bot of another tenant
StoredConversations ==
    {Conversation("c1", "b1", None, TRUE),
     Conversation("c2", "b1", None, FALSE),
     Conversation("c3", "b2", None, TRUE)}

NoConversation == Conversation(None, None, None, FALSE)
NoUsage == [prompt_tokens |-> 0, completion_tokens |-> 0, total_tokens |-> 0]
NoResponse ==
    [role |-> None, content |-> None, citations |-> <<>>, usage |-> NoUsage,
     session_id |-> None, refused_by |-> None]

\* no request under way
TurnIdle ==
    /\ conversations = StoredConversations
    /\ requests = 0
    /\ entry = None
    /\ has_user = FALSE
    /\ session_id = None
    /\ tpc = "idle"
    /\ served = <<>>
    /\ conversation = NoConversation
    /\ response = NoResponse
    /\ ai_provider = "openai"
    /\ provider_calls = <<>>
    /\ frames = <<>>

\* the uploaded documents and the dataset each belongs to
DocumentDataset == [doc \in {"doc1", "doc2"} |-> IF doc = "doc1" THEN "d1" ELSE "d2"]
DocumentIds == DOMAIN DocumentDataset

\* the documents as uploaded (status "pending"), no chunk stored, nothing
\* retrieved
StoreIdle ==
    /\ documents = [doc \in DocumentIds |-> "pending"]
    /\ chunks = {}
    /\ hits = {}

ConvInit ==
    /\ messages = {}
    /\ title = [c \in ConversationIds |-> None]
    /\ title_tasks = [c \in ConversationIds |-> 0]
    /\ title_attempts = [c \in ConversationIds |-> 0]
    /\ pc = [t \in Turns |-> "idle"]
    /\ turn_conv = [t \in Turns |-> None]
    /\ request_count = [t \in Turns |-> 0]
    /\ next_sequence = [t \in Turns |-> 0]
    /\ is_first_exchange = [t \in Turns |-> FALSE]
    /\ loaded_title = [t \in Turns |-> None]

Init == ConvInit /\ GuardIdle /\ TurnIdle /\ StoreIdle

\* a guardrail evaluation about to start on bot b and query q
GuardStart ==
    /\ gpc = "validate"
    /\ blocked = NoDecision
    /\ result = NoResult
    /\ via = None
    /\ runs = 0
    /\ prev = NoPrev
    /\ citations = <<>>
    /\ retrieval = None
    /\ system_prompt = ""

InitGuard ==
    /\ ConvInit
    /\ TurnIdle
    /\ StoreIdle
    /\ bot \in Bots(GuardScopes, {<<>>})
    /\ query \in GuardQueries
    /\ GuardStart

NextGuard ==
    \/ ValidateQuery
    \/ AiGuardrailResponse
    \/ AiGuardrailFailure

SpecGuard == InitGuard /\ [][NextGuard]_vars

\* a whole allowed turn: guardrail, retrieval, prompt
InitKnowledge ==
    /\ ConvInit
    /\ TurnIdle
    /\ StoreIdle
    /\ bot \in Bots(KnowledgeScopes, {<<>>, <<"d2">>})
    /\ query \in KnowledgeQueries
    /\ GuardStart

NextKnowledge ==
    \/ ValidateQuery
    \/ AiGuardrailResponse
    \/ AiGuardrailFailure
    \/ RetrieveContext
    \/ BuildSystemPrompt

SpecKnowledge == InitKnowledge /\ [][NextKnowledge]_vars

\* turns of bots of tenant t1 and of tenant t3, which has no dataset (and so
\* none to assign to its bots)
RetrievalTenants == {"t1", "t3"}

InitRetrieval ==
    /\ ConvInit
    /\ TurnIdle
    /\ StoreIdle
    /\ bot \in {[b EXCEPT !.tenant_id = t] :
                   b \in Bots(KnowledgeScopes, {<<>>, <<"d1">>}), t \in RetrievalTenants}
    /\ bot.tenant_id = "t3" => bot.datasets = <<>>
    /\ query \in KnowledgeQueries
    /\ GuardStart

SpecRetrieval == InitRetrieval /\ [][NextKnowledge]_vars

\* the datasets a tenant can assign to its bots: create_bot and
\* assign_dataset_to_bot take the tenant's own active datasets only (a
\* dataset can be deactivated after it was assigned)
AssignableDatasets(tenant_id) ==
    {d.id : d \in {x \in DatasetStore : x.tenant_id = tenant_id}}

IsolationTenants == {"t1", "t2", "t3"}

\* bots of every tenant with up to two of the tenant's datasets assigned and
\* at most one scope
IsolationBots ==
    {[tenant_id |-> t, scopes |-> scopes, datasets |-> datasets] :
        t \in IsolationTenants,
        scopes \in {<<>>} \cup {<<scope>> : scope \in KnowledgeScopes},
        datasets \in {<<>>} \cup {<<a>> : a \in DatasetStoreIds}
                        \cup {<<a, b>> : a \in DatasetStoreIds, b \in DatasetStoreIds}}

InitIsolation ==
    /\ ConvInit
    /\ TurnIdle
    /\ StoreIdle
    /\ bot \in IsolationBots
    /\ Range(bot.datasets) \subseteq AssignableDatasets(bot.tenant_id)
    /\ Len(bot.datasets) = Cardinality(Range(bot.datasets))
    /\ query \in KnowledgeQueries
    /\ GuardStart

SpecIsolation == InitIsolation /\ [][NextKnowledge]_vars

\* the same query validated again and again on the same bot
InitRedirect ==
    /\ ConvInit
    /\ TurnIdle
    /\ StoreIdle
    /\ bot \in Bots(RedirectScopes, {<<>>})
    /\ query \in RedirectQueries
    /\ GuardStart

NextRedirect ==
    \/ ValidateQuery
    \/ AiGuardrailResponse
    \/ AiGuardrailFailure
    \/ NextRequest

SpecRedirect == InitRedirect /\ [][NextRedirect]_vars

\* ------------------------------------------------------------------------
\* Endpoint handlers (routers/chat.py, routers/tenant/conversations.py)
\* ------------------------------------------------------------------------
EntryPoints ==
    {"chat_public", "chat_public_stream", "chat", "chat_stream", "chat_efficient",
     "send_message"}

BotId == "b1"

\* does the handler call validate_query: the tenant endpoint never does, the
\* efficient endpoint always does, the others when request.messages holds a
\* message of role "user"
ValidatesQuery(e, user_message) ==
    \/ e = "chat_efficient"
    \/ e \in {"chat_public", "chat_public_stream", "chat", "chat_stream"} /\ user_message

\* does the handler call retrieve_context
Retrieves(e, user_message) ==
    e \in {"chat_efficient", "send_message"} \/ user_message

\* the bot_datasets argument of the handler's retrieve_context call
BotDatasetsArgument(e, b) ==
    IF e = "chat_public_stream" THEN <<>> ELSE b.datasets

\* the handler of the same endpoint for a request without stream=true
NonStreaming(e) ==
    IF e = "chat_public_stream" THEN "chat_public"
    ELSE IF e = "chat_stream" THEN "chat"
    ELSE e

\* handlers that generate with ChatService, the others with AIProviderService
UsesChatService(e) == e \in {"chat", "chat_stream", "send_message"}

\* the tenant endpoint hands its synchronous Session to the services: every
\* "await self.db.execute(...)" in them raises TypeError
SyncSession(e) == e = "send_message"

\* handlers that answer with a stream of server-sent events
Streams(e) == e \in {"chat_public_stream", "chat_stream"}

\* one server-sent event: its type, and the session id or usage it carries
Frame(type, sid, usage) == [type |-> type, session_id |-> sid, usage |-> usage]

\* the token frames of n chunks with content
TokenFrames(n) == [i \in 1..n |-> Frame("token", None, NoUsage)]

\* a stream read to its end in one step: it held no chunk with content, or one
ChunkCounts == {0, 1}

\* provider names a TenantAIProvider record can hold
ProviderNames == {"openai", "anthropic", "google", "cohere"}

\* get_client: a client for openai, an exception for every other name.
\* ChatService never calls it
ClientRaises(e, provider_name) ==
    ~UsesChatService(e) /\ provider_name # "openai"

\* the client the service sends the completion to: AIProviderService the one
\* get_client built from the bot's record, ChatService the module's
\* openai_client, built from the environment's OPENAI_API_KEY
SelectedClient(e, provider_name) ==
    IF UsesChatService(e)
    THEN [client |-> "openai_client", provider |-> "openai",
          api_key |-> "OPENAI_API_KEY"]
    ELSE [client |-> "get_client", provider |-> provider_name,
          api_key |-> "ai_provider.api_key"]

\* a completion call that is made again after it failed
CallsAfter_retried(calls, call) == Append(Append(calls, call), call)

\* the completion requests sent once the service called the client: one
\* chat.completions.create, whether it returns or raises
CallsAfter(calls, call) == Append(calls, call)

\* the exceptions of the client the services log and raise again
ProviderErrors == {"AuthenticationError", "RateLimitError", "APIError"}

clearly_out_of_scope ==
    <<"weather", "forecast", "temperature", "rain", "snow",
      "cooking", "recipe", "food", "restaurant",
      "sports", "game", "score", "team",
      "movie", "film", "actor", "cinema",
      "politics", "election", "government", "president",
      "medical", "doctor", "health", "medicine", "symptom",
      "legal", "law", "lawyer", "court", "lawsuit">>

\* the loop of _is_query_out_of_scope over the active scopes
RECURSIVE OutOfScopeLoop(_, _, _)
OutOfScopeLoop(scopes, query_lower, i) ==
    IF i > Len(scopes)
    THEN \E k \in DOMAIN clearly_out_of_scope : Contains(clearly_out_of_scope[k], query_lower)
    ELSE LET guardrails == scopes[i].guardrails IN
         IF \E k \in DOMAIN guardrails.allowed_topics :
               Contains(lower(guardrails.allowed_topics[k]), query_lower)
         THEN FALSE
         ELSE IF \E k \in DOMAIN guardrails.forbidden_topics :
                    Contains(lower(guardrails.forbidden_topics[k]), query_lower)
         THEN TRUE
         ELSE OutOfScopeLoop(scopes, query_lower, i + 1)

\* ChatService._is_query_out_of_scope (the branches on the bot's name all
\* return False)
_is_query_out_of_scope(scopes, user_query) ==
    LET active == SelectSeq(scopes, LAMBDA scope : scope.is_active)
    IN  IF active = <<>> THEN FALSE
        ELSE OutOfScopeLoop(active, lower(user_query), 1)

\* what _get_scope_refusal_message can return: the text of the completion
\* call, or the fallback built from the allowed topics
OwnRefusals ==
    {"That is outside what I cover. I can help with billing and support instead.",
     "I can help with my specialized areas. How can I assist you?"}

\* the usage ChatService.generate_response attaches to its own refusal
RefusalUsage(refusal_message) ==
    [prompt_tokens |-> 0, completion_tokens |-> Len(split(refusal_message)),
     total_tokens |-> Len(split(refusal_message))]

\* the usage the provider reports for a completion
ProviderUsage == [prompt_tokens |-> 42, completion_tokens |-> 7, total_tokens |-> 49]

Answer == "Here is what I found."

\* scopes of the bots the requests are sent to: with or without allowed
\* topics, each selecting the datasets tagged "support"
TurnScopes ==
    {Scope(active, Guardrails("moderate", topics, OffLimits, None, DefaultKnowledge,
                              NoGuidelines), [tags |-> <<"support">>, metadata |-> {}]) :
        active \in BOOLEAN, topics \in {SupportTopics, <<>>}}

TurnScopeLists == UNION {[1..n -> TurnScopes] : n \in 0..MaxScopes}
TurnQueries == RedirectQueries

\* _is_query_out_of_scope on the scope lists and queries above, computed once
OutOfScopeTable ==
    [scopes \in TurnScopeLists, user_query \in TurnQueries |->
        _is_query_out_of_scope(scopes, user_query)]

\* session ids a client can send: none, a stored conversation, an unknown id,
\* or an id an earlier response returned
SessionIds == {None, "c1", "c2", "c3", "unknown"} \cup NewIds

\* a request arrives at one of the endpoints
ReceiveRequest ==
    /\ tpc \in {"idle", "done"}
    /\ requests < MaxRequests
    /\ requests' = requests + 1
    /\ \E e \in EntryPoints, q \in TurnQueries, user_message \in BOOLEAN,
          sid \in SessionIds :
          /\ e \in {"chat_efficient", "send_message"} => user_message
          /\ sid \in NewIds =>
                \E row \in conversations : row.id = sid
          /\ entry' = e
          /\ query' = IF user_message THEN q ELSE ""
          /\ has_user' = user_message
          /\ session_id' = sid
          /\ gpc' = IF ValidatesQuery(e, user_message) THEN "validate" ELSE "idle"
    /\ tpc' = "received"
    /\ served' = <<>>
    /\ conversation' = NoConversation
    /\ response' = NoResponse
    /\ blocked' = NoDecision
    /\ result' = NoResult
    /\ via' = None
    /\ runs' = 0
    /\ citations' = <<>>
    /\ retrieval' = None
    /\ system_prompt' = ""
    /\ provider_calls' = <<>>
    /\ frames' = <<>>
    /\ UNCHANGED <<bot, prev, conversations, ai_provider>>
    /\ UNCHANGED <<convVars, storeVars>>

\* validate_query returned False: the handler answers with the refusal and
\* returns (the stream handlers send the same as start, content and end events)
RespondWithRefusal ==
    /\ tpc = "received"
    /\ gpc = "returned"
    /\ ~result.allowed
    /\ response' =
          [role |-> "assistant", content |-> result.message, citations |-> <<>>,
           usage |-> NoUsage,
           session_id |-> IF session_id # None THEN session_id
                          ELSE IF entry \in {"chat_public_stream", "chat_stream"}
                          THEN "temp" ELSE NewId(requests),
           refused_by |-> "validate_query"]
    /\ frames' = IF Streams(entry)
                 THEN <<Frame("start", IF session_id # None THEN session_id ELSE "temp",
                              NoUsage),
                        Frame("content", None, NoUsage),
                        Frame("end", None, NoUsage)>>
                 ELSE frames
    /\ tpc' = "done"
    /\ UNCHANGED <<conversations, requests, entry, has_user, session_id, served,
                   conversation, ai_provider, provider_calls>>
    /\ UNCHANGED <<convVars, guardVars, storeVars>>

\* a lookup that takes any conversation of that id, closed or of another bot
FoundConversations_by_id_only(sid, bot_id) ==
    {row \in conversations : sid # None /\ row.id = sid}

\* the conversation _get_or_create_conversation finds for a session id
FoundConversations(sid, bot_id) ==
    {row \in conversations :
        /\ sid # None
        /\ row.id = sid
        /\ row.bot_id = bot_id
        /\ row.is_active}

\* _get_or_create_conversation
_get_or_create_conversation ==
    /\ tpc = "received"
    /\ entry # "send_message"
    /\ IF ValidatesQuery(entry, has_user)
       THEN gpc = "returned" /\ result.allowed
       ELSE TRUE
    /\ IF FoundConversations(session_id, BotId) # {}
       THEN /\ conversation' = CHOOSE row \in FoundConversations(session_id, BotId) : TRUE
            /\ conversations' = conversations
       ELSE /\ conversation' = Conversation(NewId(requests), BotId, session_id, TRUE)
            /\ conversations' = conversations \cup
                  {Conversation(NewId(requests), BotId, session_id, TRUE)}
    /\ served' = Append(served, "_get_or_create_conversation")
    /\ frames' = IF Streams(entry)
                 THEN Append(frames, Frame("start", conversation'.id, NoUsage))
                 ELSE frames
    /\ tpc' = "conversation"
    /\ UNCHANGED <<requests, entry, has_user, session_id, response, ai_provider,
                   provider_calls>>
    /\ UNCHANGED <<convVars, guardVars, storeVars>>

\* send_message looks the conversation of its path up among the active
\* conversations of the tenant's bots, and answers 404 when there is none
LoadConversation ==
    /\ tpc = "received"
    /\ entry = "send_message"
    /\ LET found == {row \in conversations :
                        /\ row.id = session_id
                        /\ BotTenant[row.bot_id] = bot.tenant_id
                        /\ row.is_active}
       IN  IF found # {}
           THEN /\ conversation' = CHOOSE row \in found : TRUE
                /\ tpc' = "conversation"
                /\ response' = response
           ELSE /\ conversation' = conversation
                /\ tpc' = "done"
                /\ response' = [NoResponse EXCEPT !.refused_by = "http_404"]
    /\ UNCHANGED <<conversations, requests, entry, has_user, session_id, served,
                   genVars>>
    /\ UNCHANGED <<convVars, guardVars, storeVars>>

\* the handler's call of retrieve_context, or citations = [] without a call
HandlerRetrieveContext ==
    /\ tpc = "conversation"
    /\ IF Retrieves(entry, has_user)
       THEN /\ \E outcome \in RetrievalOutcomes :
                  /\ SyncSession(entry) => outcome = "fallback_error"
                  /\ citations' = CitationsOf(SearchedDatasets(bot.tenant_id, bot.scopes,
                                        BotDatasetsArgument(entry, bot), outcome))
                  /\ retrieval' = outcome
            /\ served' = Append(served, "retrieve_context")
       ELSE /\ citations' = <<>>
            /\ retrieval' = None
            /\ served' = served
    /\ frames' = IF Streams(entry) /\ citations' # <<>>
                 THEN Append(frames, Frame("citations", None, NoUsage))
                 ELSE frames
    /\ tpc' = "retrieved"
    /\ UNCHANGED <<bot, query, gpc, blocked, result, via, runs, prev, system_prompt>>
    /\ UNCHANGED <<conversations, requests, entry, has_user, session_id, conversation,
                   response, ai_provider, provider_calls>>
    /\ UNCHANGED <<convVars, storeVars>>

\* does ChatService.generate_response answer with its own refusal (the query
\* of a request without messages is "", which holds no topic)
OwnRefusal ==
    /\ UsesChatService(entry)
    /\ citations = <<>>
    /\ ~SyncSession(entry)
    /\ has_user
    /\ OutOfScopeTable[bot.scopes, query]

\* generate_response (generate_response_stream) of the handler's service,
\* when the client is built and its completion call returns (its stream is
\* read to the end, in any number of chunks with content)
GenerateResponse ==
    /\ tpc = "retrieved"
    /\ ~ClientRaises(entry, ai_provider)
    /\ IF OwnRefusal
       THEN /\ \E refusal_message \in OwnRefusals :
                  response' = [role |-> "assistant", content |-> refusal_message,
                               citations |-> citations,
                               usage |-> RefusalUsage(refusal_message),
                               session_id |-> conversation.id,
                               refused_by |-> "generate_response"]
            /\ provider_calls' = provider_calls
            /\ frames' = IF Streams(entry) THEN frames \o TokenFrames(1) ELSE frames
       ELSE /\ response' = [role |-> "assistant", content |-> Answer,
                            citations |-> citations, usage |-> ProviderUsage,
                            session_id |-> conversation.id, refused_by |-> None]
            /\ provider_calls' =
                  CallsAfter(provider_calls, SelectedClient(entry, ai_provider))
            /\ IF Streams(entry)
               THEN \E n \in ChunkCounts : frames' = frames \o TokenFrames(n)
               ELSE frames' = frames
    /\ served' = Append(served, "generate_response")
    /\ tpc' = "generated"
    /\ UNCHANGED <<conversations, requests, entry, has_user, session_id, conversation,
                   ai_provider>>
    /\ UNCHANGED <<convVars, guardVars, storeVars>>

\* what the client sees of a request that ended in an exception
ErrorResponse(error) == [NoResponse EXCEPT !.refused_by = error]

\* generate_response of AIProviderService on a bot whose provider is not
\* openai: get_client raises before anything is sent, the handler ends
UnsupportedProvider ==
    /\ tpc = "retrieved"
    /\ ClientRaises(entry, ai_provider)
    /\ response' = ErrorResponse(IF ai_provider \in {"anthropic", "google"}
                                 THEN "NotImplementedError" ELSE "ValueError")
    /\ tpc' = "done"
    /\ UNCHANGED <<conversations, requests, entry, has_user, session_id, served,
                   conversation, genVars>>
    /\ UNCHANGED <<convVars, guardVars, storeVars>>

\* the completion call raises: the service logs and raises again, and the
\* handler ends before _save_conversation_messages
ProviderFailure ==
    /\ tpc = "retrieved"
    /\ ~ClientRaises(entry, ai_provider)
    /\ ~OwnRefusal
    /\ \E error \in ProviderErrors : response' = ErrorResponse(error)
    /\ provider_calls' = CallsAfter(provider_calls, SelectedClient(entry, ai_provider))
    /\ served' = Append(served, "generate_response")
    /\ tpc' = "done"
    /\ UNCHANGED <<conversations, requests, entry, has_user, session_id, conversation,
                   ai_provider, frames>>
    /\ UNCHANGED <<convVars, guardVars, storeVars>>

\* len(request_messages) the handler passes to _save_conversation_messages:
\* the user message, or nothing for a request without messages
RequestMessages(e, user_message) ==
    IF e = "chat_efficient" \/ user_message THEN 1 ELSE 0

\* limit of chat_public's call of _get_conversation_context
ContextLimit == 10

\* _get_conversation_context: how many messages it returns, the last
\* limit * 2 stored ones of the active conversation of that id and bot
_get_conversation_context(sid, bot_id, limit) ==
    LET rows == {m \in messages :
                    \E row \in FoundConversations(sid, bot_id) :
                        m.conversation_id = row.id}
    IN  IF Cardinality(rows) > limit * 2 THEN limit * 2 ELSE Cardinality(rows)

\* chat_public puts the stored context before the request's messages when
\* the request has a session id and one message, and hands the whole list on
PrependedMessages(e, user_message, sid) ==
    IF e \in {"chat_public", "chat_public_stream"} /\ sid # None /\ user_message
    THEN _get_conversation_context(sid, BotId, ContextLimit)
    ELSE 0

\* the handler stores the exchange: _save_conversation_messages with no other
\* request in flight (SELECT, INSERTs, commit, title task), or the INSERTs and
\* the commit of send_message
SaveConversationMessages ==
    /\ tpc = "generated"
    /\ LET c == conversation.id
           first == NextSequenceOf(c)
       IN  /\ messages' = messages \cup
                 TurnRows(requests, c,
                          PrependedMessages(entry, has_user, session_id)
                              + RequestMessages(entry, has_user),
                          first)
           /\ title_tasks' =
                 IF entry # "send_message" /\ first = 1 /\ title[c] = None
                 THEN [title_tasks EXCEPT ![c] = @ + 1]
                 ELSE title_tasks
    /\ served' = Append(served, "_save_conversation_messages")
    /\ frames' = IF Streams(entry)
                 THEN Append(frames, Frame("done", None, response.usage))
                 ELSE frames
    /\ tpc' = "done"
    /\ UNCHANGED <<title, title_attempts, pc, turn_conv, request_count, next_sequence,
                   is_first_exchange, loaded_title>>
    /\ UNCHANGED <<conversations, requests, entry, has_user, session_id, conversation,
                   response, ai_provider, provider_calls>>
    /\ UNCHANGED <<guardVars, storeVars>>

\* the bots the requests are sent to: no scope or one, no dataset or d1
TurnBots == {b \in Bots(TurnScopes, {<<>>, <<"d1">>}) : Len(b.scopes) <= 1}

InitTurn ==
    /\ ConvInit
    /\ bot \in TurnBots
    /\ query = ""
    /\ gpc = "idle"
    /\ blocked = NoDecision
    /\ result = NoResult
    /\ via = None
    /\ runs = 0
    /\ prev = NoPrev
    /\ citations = <<>>
    /\ retrieval = None
    /\ system_prompt = ""
    /\ TurnIdle
    /\ StoreIdle

NextTurn ==
    \/ ReceiveRequest
    \/ ValidateQuery
    \/ AiGuardrailResponse
    \/ AiGuardrailFailure
    \/ RespondWithRefusal
    \/ _get_or_create_conversation
    \/ LoadConversation
    \/ HandlerRetrieveContext
    \/ GenerateResponse
    \/ SaveConversationMessages

SpecTurn == InitTurn /\ [][NextTurn]_vars

\* requests to a bot without scopes, with the title tasks they schedule
\* running at any later moment
NextTitle ==
    \/ ReceiveRequest
    \/ ValidateQuery
    \/ _get_or_create_conversation
    \/ LoadConversation
    \/ HandlerRetrieveContext
    \/ GenerateResponse
    \/ SaveConversationMessages
    \/ \E c \in ConversationIds : GenerateTitleBackground(c)

SpecTitle == Init /\ [][NextTitle]_vars

\* requests to a bot without scopes whose provider record holds any of the
\* provider names, with the generation failing or not
InitGenerate ==
    /\ ConvInit
    /\ GuardIdle
    /\ conversations = StoredConversations
    /\ requests = 0
    /\ entry = None
    /\ has_user = FALSE
    /\ session_id = None
    /\ tpc = "idle"
    /\ served = <<>>
    /\ conversation = NoConversation
    /\ response = NoResponse
    /\ ai_provider \in ProviderNames
    /\ provider_calls = <<>>
    /\ frames = <<>>
    /\ StoreIdle

NextGenerate ==
    \/ ReceiveRequest
    \/ ValidateQuery
    \/ _get_or_create_conversation
    \/ LoadConversation
    \/ HandlerRetrieveContext
    \/ GenerateResponse
    \/ UnsupportedProvider
    \/ ProviderFailure
    \/ SaveConversationMessages

SpecGenerate == InitGenerate /\ [][NextGenerate]_vars

\* generate_response of ChatService builds the system prompt, once the turn
\* has citations (without citations it may answer with its own refusal)
ChatServiceBuildSystemPrompt ==
    /\ gpc = "retrieved"
    /\ citations # <<>>
    /\ system_prompt' = ChatService_build_system_prompt(bot.scopes, citations)
    /\ gpc' = "prompted"
    /\ UNCHANGED <<bot, query, blocked, result, via, runs, prev, citations, retrieval>>
    /\ UNCHANGED <<convVars, turnVars, storeVars>>

\* one turn on a handler of either service, up to the system prompt
InitPrompt ==
    /\ ConvInit
    /\ conversations = StoredConversations
    /\ requests = 0
    /\ entry \in {"chat_public", "chat"}
    /\ has_user = TRUE
    /\ session_id = None
    /\ tpc = "idle"
    /\ served = <<>>
    /\ conversation = NoConversation
    /\ response = NoResponse
    /\ ai_provider = "openai"
    /\ provider_calls = <<>>
    /\ frames = <<>>
    /\ StoreIdle
    /\ bot \in Bots(KnowledgeScopes, {<<>>, <<"d2">>})
    /\ query \in KnowledgeQueries
    /\ GuardStart

NextPrompt ==
    \/ ValidateQuery
    \/ AiGuardrailResponse
    \/ AiGuardrailFailure
    \/ RetrieveContext
    \/ ~UsesChatService(entry) /\ BuildSystemPrompt
    \/ UsesChatService(entry) /\ ChatServiceBuildSystemPrompt

SpecPrompt == InitPrompt /\ [][NextPrompt]_vars

\* ------------------------------------------------------------------------
\* The stream handlers, one chunk of the provider's stream at a time
\* ------------------------------------------------------------------------

\* how a stream ends before its last chunk: the client disconnects, or the
\* provider's stream raises
StreamAborts == {"cancelled"} \cup ProviderErrors

\* the token frames yielded so far
TokensEmitted == Len(SelectSeq(frames, LAMBDA f : f.type = "token"))

\* an aborted stream whose partial exchange is stored all the same
RowsAfterAbort_partial_saved(rows, t, c, n) ==
    rows \cup TurnRows(t, c, n, NextSequenceOf(c))

\* table messages after the generator ended inside its "async for": the
\* call of _save_conversation_messages below the loop was not reached
RowsAfterAbort(rows, t, c, n) == rows

\* generate_response_stream sends the completion request with stream=True
\* and gets the stream back
OpenStream ==
    /\ tpc = "retrieved"
    /\ Streams(entry)
    /\ ~ClientRaises(entry, ai_provider)
    /\ ~OwnRefusal
    /\ provider_calls' = CallsAfter(provider_calls, SelectedClient(entry, ai_provider))
    /\ served' = Append(served, "generate_response")
    /\ tpc' = "streaming"
    /\ UNCHANGED <<conversations, requests, entry, has_user, session_id, conversation,
                   response, ai_provider, frames>>
    /\ UNCHANGED <<convVars, guardVars, storeVars>>

\* a chunk with content arrives: the handler yields it as a token frame
StreamToken ==
    /\ tpc = "streaming"
    /\ TokensEmitted < MaxTokens
    /\ frames' = frames \o TokenFrames(1)
    /\ UNCHANGED <<conversations, requests, entry, has_user, session_id, tpc, served,
                   conversation, response, ai_provider, provider_calls>>
    /\ UNCHANGED <<convVars, guardVars, storeVars>>

\* the stream is exhausted: the loop ends with the full content and the usage
StreamEnd ==
    /\ tpc = "streaming"
    /\ response' = [role |-> "assistant", content |-> Answer,
                    citations |-> citations, usage |-> ProviderUsage,
                    session_id |-> conversation.id, refused_by |-> None]
    /\ tpc' = "generated"
    /\ UNCHANGED <<conversations, requests, entry, has_user, session_id, served,
                   conversation, genVars>>
    /\ UNCHANGED <<convVars, guardVars, storeVars>>

\* the stream ends early: the exception leaves the generator inside the loop
StreamAbort ==
    /\ tpc = "streaming"
    /\ \E cause \in StreamAborts : response' = ErrorResponse(cause)
    /\ messages' = RowsAfterAbort(messages, requests, conversation.id,
                                  RequestMessages(entry, has_user))
    /\ tpc' = "done"
    /\ UNCHANGED <<title, title_tasks, title_attempts, pc, turn_conv, request_count,
                   next_sequence, is_first_exchange, loaded_title>>
    /\ UNCHANGED <<conversations, requests, entry, has_user, session_id, served,
                   conversation, genVars>>
    /\ UNCHANGED <<guardVars, storeVars>>

\* the bots of the stream requests: those with an assigned dataset
InitStream == InitTurn /\ bot.datasets # <<>>

\* requests to the two stream endpoints, without a session id or with the
\* id of a conversation of the bot
NextStream ==
    \/ ReceiveRequest /\ Streams(entry') /\ session_id' \in {None, "c1"}
    \/ ValidateQuery
    \/ AiGuardrailResponse
    \/ AiGuardrailFailure
    \/ RespondWithRefusal
    \/ _get_or_create_conversation
    \/ HandlerRetrieveContext
    \/ OwnRefusal /\ GenerateResponse
    \/ OpenStream
    \/ ProviderFailure
    \/ StreamToken
    \/ StreamEnd
    \/ StreamAbort
    \/ SaveConversationMessages

SpecStream == InitStream /\ [][NextStream]_vars

\* ------------------------------------------------------------------------
\* Document processing (DocumentProcessingService) and retrieval at the grain
\* of chunks
\* ------------------------------------------------------------------------
\* a row of table chunks; embedding is "vector" or "null"
Chunk(document_id, chunk_index, embedding) ==
    [document_id |-> document_id, chunk_index |-> chunk_index, embedding |-> embedding]

\* process_document up to its first commit: the document is "processing"
StartProcessing(doc) ==
    /\ documents[doc] = "pending"
    /\ documents' = [documents EXCEPT ![doc] = "processing"]
    /\ UNCHANGED <<chunks, hits>>
    /\ UNCHANGED <<convVars, guardVars, turnVars>>

\* reprocess_document: the chunks of the document are deleted, then
\* process_document starts
reprocess_document(doc) ==
    /\ documents[doc] \in {"completed", "failed"}
    /\ chunks' = {c \in chunks : c.document_id # doc}
    /\ documents' = [documents EXCEPT ![doc] = "processing"]
    /\ UNCHANGED hits
    /\ UNCHANGED <<convVars, guardVars, turnVars>>

\* the rows process_document adds for a text of n chunks: without an
\* embedding client every chunk is stored with embedding None, with one the
\* chunks whose embedding call raised are skipped
NewChunks(doc, n, embedding_client, embedded) ==
    IF embedding_client
    THEN {Chunk(doc, i, "vector") : i \in embedded \cap 1..n}
    ELSE {Chunk(doc, i, "null") : i \in 1..n}

\* process_document from _generate_chunks to its second commit: the chunks
\* are stored and the document is "completed"
CompleteProcessing(doc) ==
    /\ documents[doc] = "processing"
    /\ \E n \in 0..MaxChunks, embedding_client \in BOOLEAN, embedded \in SUBSET (1..MaxChunks) :
          chunks' = chunks \cup NewChunks(doc, n, embedding_client, embedded)
    /\ documents' = [documents EXCEPT ![doc] = "completed"]
    /\ UNCHANGED hits
    /\ UNCHANGED <<convVars, guardVars, turnVars>>

\* process_document raises outside the loop over the chunks: nothing of the
\* session is committed and the document is "failed"
FailProcessing(doc) ==
    /\ documents[doc] = "processing"
    /\ documents' = [documents EXCEPT ![doc] = "failed"]
    /\ UNCHANGED <<chunks, hits>>
    /\ UNCHANGED <<convVars, guardVars, turnVars>>

\* the chunks basic_query (fallback_query when it raised) admits: those of
\* the completed documents of the datasets searched
SearchedChunks(tenant_id, bot_scopes, bot_datasets, outcome) ==
    {c \in chunks :
        /\ documents[c.document_id] = "completed"
        /\ DocumentDataset[c.document_id] \in
              SearchedDatasets(tenant_id, bot_scopes, bot_datasets, outcome)}

\* the limit every handler passes to retrieve_context
HandlerLimit == 5

\* the limit of the fallback query
FallbackLimit == 3

\* values of the parameter limit of retrieve_context
Limits == (1..MaxLimit) \cup {HandlerLimit}

\* the .limit(...) of the query that produced the chunks: basic_query takes
\* the parameter, fallback_query a fixed number
QueryLimit(outcome, limit) ==
    IF outcome = "keyword_error" THEN FallbackLimit ELSE limit

\* retrieve_context on the store as it is: the chunks returned are those the
\* keyword (ilike) and the query's limit keep among the chunks admitted; the
\* fallback query has no keyword and returns as many chunks as its limit lets
RetrieveChunks ==
    /\ \E outcome \in RetrievalOutcomes, limit \in Limits :
       \E kept \in SUBSET SearchedChunks(bot.tenant_id, bot.scopes, bot.datasets, outcome) :
          /\ Cardinality(kept) <= QueryLimit(outcome, limit)
          /\ outcome = "keyword_error" =>
                Cardinality(kept) =
                    Min(QueryLimit(outcome, limit),
                        Cardinality(SearchedChunks(bot.tenant_id, bot.scopes,
                                                   bot.datasets, outcome)))
          /\ hits' = {[chunk |-> c, document_status |-> documents[c.document_id],
                       outcome |-> outcome, limit |-> limit] : c \in kept}
    /\ UNCHANGED <<documents, chunks>>
    /\ UNCHANGED <<convVars, guardVars, turnVars>>

InitStore ==
    /\ ConvInit
    /\ bot \in Bots({}, {<<>>, <<"d1", "d2">>})
    /\ query = ""
    /\ gpc = "idle"
    /\ blocked = NoDecision
    /\ result = NoResult
    /\ via = None
    /\ runs = 0
    /\ prev = NoPrev
    /\ citations = <<>>
    /\ retrieval = None
    /\ system_prompt = ""
    /\ TurnIdle
    /\ StoreIdle

NextStore ==
    \/ \E doc \in DocumentIds : StartProcessing(doc)
    \/ \E doc \in DocumentIds : reprocess_document(doc)
    \/ \E doc \in DocumentIds : CompleteProcessing(doc)
    \/ \E doc \in DocumentIds : FailProcessing(doc)
    \/ RetrieveChunks

SpecStore == InitStore /\ [][NextStore]_vars

\* chat turns as the event loop (and several workers) may interleave them
Next ==
    \/ \E t \in Turns : SelectLastMessage(t)
    \/ \E t \in Turns : CommitMessages(t)
    \/ \E t \in Turns : send_message(t)
    \/ \E c \in Conversations : GenerateTitleBackground(c)

Spec == Init /\ [][Next]_vars

\* the same turns run one after another: a turn starts its save only when no
\* other turn is between its SELECT and its commit
NoTurnMidSave == \A u \in Turns : pc[u] # "selected"

SelectLastMessageSerial(t) == NoTurnMidSave /\ SelectLastMessage(t)
send_message_serial(t) == NoTurnMidSave /\ send_message(t)

NextSerial ==
    \/ \E t \in Turns : SelectLastMessageSerial(t)
    \/ \E t \in Turns : CommitMessages(t)
    \/ \E t \in Turns : send_message_serial(t)
    \/ \E c \in Conversations : GenerateTitleBackground(c)

SpecSerial == Init /\ [][NextSerial]_vars

\* ------------------------------------------------------------------------
\* Properties of message persistence
\* ------------------------------------------------------------------------
MessagesOf(c) == {m \in messages : m.conversation_id = c}
SeqsOf(c) == {m.sequence_number : m \in MessagesOf(c)}
RowsOfTurn(t) == {m \in messages : m.id[1] = t}

\* C1: in every persisted state, whatever the interleaving of the turns, no
\* two messages of a conversation share a sequence_number and the numbers of
\* the conversation are exactly 1..n
C1_UniqueGaplessSequence ==
    \A c \in Conversations :
        /\ \A m1, m2 \in MessagesOf(c) :
              m1.sequence_number = m2.sequence_number => m1 = m2
        /\ SeqsOf(c) = 1..Cardinality(MessagesOf(c))

GaplessSequence ==
    \A c \in Conversations :
        /\ Cardinality(SeqsOf(c)) = Cardinality(MessagesOf(c))
        /\ SeqsOf(c) = 1..Cardinality(MessagesOf(c))

\* the numbering a finished turn left behind: its request messages carry
\* next_sequence, next_sequence+1, ... in order and its assistant message the
\* number after the last request message
TurnNumberedInOrder(t) ==
    /\ \A m \in RowsOfTurn(t) : m.sequence_number = next_sequence[t] + m.id[2] - 1
    /\ \A m \in RowsOfTurn(t) :
          m.role = "assistant" <=> m.id[2] = request_count[t] + 1
    /\ Cardinality(RowsOfTurn(t)) = request_count[t] + 1

\* the step that persists a turn starts numbering at the conversation's
\* maximum plus one
CommitContinuesFromMax ==
    \A t \in Turns :
        (pc[t] # "done" /\ pc'[t] = "done") =>
            LET c == turn_conv'[t]
                new == messages' \ messages
            IN  /\ new # {}
                /\ \A m \in new : m.sequence_number > LastMessageSeq(c)
                /\ \E m \in new : m.sequence_number = LastMessageSeq(c) + 1

\* C2: when turns run one after another, each persistence step numbers the
\* request messages max+1, max+2, ... in order and then the assistant message,
\* the next turn continues from max+1, and the numbers of a conversation are
\* 1..n without gap or duplicate
C2_SerialTurnsNumbering ==
    /\ [](\A t \in Turns : pc[t] = "done" => TurnNumberedInOrder(t))
    /\ [](GaplessSequence)
    /\ [][CommitContinuesFromMax]_vars

\* two turns of one conversation ran one after the other: the first stored
\* two request messages and its response as 1, 2, 3, the second went on from 4
C2_Witness ==
    \E t1, t2 \in Turns :
        /\ t1 # t2
        /\ pc[t1] = "done" /\ pc[t2] = "done"
        /\ turn_conv[t1] = turn_conv[t2]
        /\ request_count[t1] = 2 /\ next_sequence[t1] = 1
        /\ request_count[t2] >= 1 /\ next_sequence[t2] = 4
        /\ SeqsOf(turn_conv[t1]) = 1..(4 + request_count[t2])

\* ------------------------------------------------------------------------
\* Properties of the scope guardrail engine
\* ------------------------------------------------------------------------
ActiveScopes == {i \in DOMAIN bot.scopes : bot.scopes[i].is_active}

\* validate_query has run on the bot and the query
Validated == gpc \in {"ai_call", "returned"}

\* the active scopes the loop of validate_query went through before it
\* returned: all of them when it fell out of the loop, else those up to the
\* scope it returned at
Evaluated(i) == i \in ActiveScopes /\ (blocked.scope = 0 \/ i <= blocked.scope)

\* the scope's forbidden_topics are matched by the query with a strength
\* above 0.3
ForbiddenMatched(guardrails) ==
    /\ guardrails.forbidden_topics # <<>>
    /\ StrengthTable[query, guardrails.forbidden_topics] > 300

\* C3: when some active scope of the bot, evaluated on its own, blocks the
\* query, the run of validate_query on the whole bot is not allowed, whatever
\* the other scopes and their order
C3_AnyBlockingScopeBlocks ==
    Validated =>
        ((\E i \in ActiveScopes : ~validate_query(<<bot.scopes[i]>>, query).allowed)
            => ~blocked.allowed /\ (gpc = "returned" => ~result.allowed))

\* C4: an active scope that validate_query evaluates and whose non-empty
\* forbidden_topics the query matches with a strength above 0.3 makes it
\* return allowed=False at that scope, with response_type "forbidden",
\* whatever the scope's strictness_level and allowed_topics
C4_ForbiddenAlwaysBlocks ==
    Validated =>
        \A i \in DOMAIN bot.scopes :
            (Evaluated(i) /\ ForbiddenMatched(bot.scopes[i].guardrails)) =>
                /\ blocked = Blocked(i, "forbidden")
                /\ gpc = "returned" => ~result.allowed

\* a scope after a passing one is blocked by its forbidden_topics although it
\* is lenient and the query matches its allowed_topics verbatim
C4_Witness ==
    /\ gpc = "returned"
    /\ ~result.allowed
    /\ blocked = Blocked(2, "forbidden")
    /\ 1 \in ActiveScopes
    /\ bot.scopes[2].guardrails.strictness_level = "lenient"
    /\ StrengthTable[query, bot.scopes[2].guardrails.allowed_topics] = 1000

\* the only active scope of the bot has allowed_topics and its
\* forbidden_topics are not matched
SingleScopeCase(i) ==
    /\ ActiveScopes = {i}
    /\ bot.scopes[i].guardrails.allowed_topics # <<>>
    /\ ~ForbiddenMatched(bot.scopes[i].guardrails)

\* (strict and s < 0.7) or (moderate and s < 0.3) or (lenient and s < 0.1)
BelowThreshold(level, s) ==
    \/ level = "strict" /\ s < 700
    \/ level = "moderate" /\ s < 300
    \/ level = "lenient" /\ s < 100

\* C5, as stated: for a single active scope with allowed_topics whose
\* forbidden_topics are not matched, validate_query returns allowed=False
\* exactly when the scope's strictness_level and the strength s of the query
\* on allowed_topics are (strict, s < 0.7), (moderate, s < 0.3) or
\* (lenient, s < 0.1), and allowed=True in every other case
C5_AsStated ==
    gpc = "returned" =>
        \A i \in DOMAIN bot.scopes :
            SingleScopeCase(i) =>
                LET guardrails == bot.scopes[i].guardrails
                IN  ~result.allowed <=>
                        BelowThreshold(guardrails.strictness_level,
                                       StrengthTable[query, guardrails.allowed_topics])

\* C5: the same, where a scope without strictness_level is held to the
\* moderate threshold
C5_SingleScopeThresholds ==
    gpc = "returned" =>
        \A i \in DOMAIN bot.scopes :
            SingleScopeCase(i) =>
                LET guardrails == bot.scopes[i].guardrails
                    level == IF guardrails.strictness_level = None THEN "moderate"
                             ELSE guardrails.strictness_level
                IN  ~result.allowed <=>
                        BelowThreshold(level,
                                       StrengthTable[query, guardrails.allowed_topics])

\* a scope without strictness_level blocks a query of strength 0.2
C5_Witness ==
    /\ gpc = "returned"
    /\ ~result.allowed
    /\ \E i \in DOMAIN bot.scopes :
          /\ SingleScopeCase(i)
          /\ bot.scopes[i].guardrails.strictness_level = None
          /\ StrengthTable[query, bot.scopes[i].guardrails.allowed_topics] = 200

\* what a query shows of the mathematics cluster and of a topic list, read off
\* the query itself
HasMathSymbol(content) ==
    \E i \in DOMAIN math_symbols : Contains(math_symbols[i], lower(content))

MathVocabularyWords(content) ==
    {i \in DOMAIN math_indicators : Contains(math_indicators[i], lower(content))}

HasDomainIndicator(content) ==
    \/ HasMathSymbol(content)
    \/ MathVocabularyWords(content) # {}
    \/ \E i \in DOMAIN domain_support_indicators :
          Contains(domain_support_indicators[i], lower(content))
    \/ \E i \in DOMAIN support_indicators :
          Contains(support_indicators[i], lower(content))

\* no topic appears verbatim in the query, no word of the query is a word of
\* a topic, and the query holds no domain indicator
NoSignal(content, topics) ==
    /\ \A i \in DOMAIN topics : ~Contains(lower(topics[i]), lower(content))
    /\ \A i \in DOMAIN topics :
          Range(split(lower(content))) \cap Range(split(lower(topics[i]))) = {}
    /\ ~HasDomainIndicator(content)

HasMathTopic(topics) == \E i \in DOMAIN topics : lower(topics[i]) \in math_topics

QuerySignals ==
    [content \in GuardQueries, topics \in TopicLists |->
        [math_scope |-> HasMathTopic(topics),
         symbol     |-> HasMathSymbol(content),
         vocabulary |-> Cardinality(MathVocabularyWords(content)),
         silent     |-> NoSignal(content, topics)]]

C6_SilentQueryBlocked ==
    /\ gpc = "returned"
    /\ ~result.allowed
    /\ \E i \in DOMAIN bot.scopes :
          LET guardrails == bot.scopes[i].guardrails
          IN  /\ SingleScopeCase(i)
              /\ QuerySignals[query, guardrails.allowed_topics].silent
              /\ guardrails.strictness_level = "lenient"

\* ------------------------------------------------------------------------
\* Properties of inactive scopes
\* ------------------------------------------------------------------------
\* the bot's scopes with the inactive ones taken out
ActiveOnly == SelectSeq(bot.scopes, LAMBDA scope : scope.is_active)

\* the decision validate_query recorded is the one it gives on ActiveOnly:
\* same verdict, same response_type, same blocking scope
SameDecision ==
    LET decision == validate_query(ActiveOnly, query)
    IN  /\ blocked.allowed = decision.allowed
        /\ blocked.response_type = decision.response_type
        /\ ~decision.allowed => bot.scopes[blocked.scope] = ActiveOnly[decision.scope]

\* the retrieval filters are those of ActiveOnly, however the searches end
SameRetrievalFilter ==
    /\ chunk_query(bot.tenant_id, bot.scopes, bot.datasets)
          = chunk_query(bot.tenant_id, ActiveOnly, bot.datasets)
    /\ \A outcome \in RetrievalOutcomes :
          SearchedDatasets(bot.tenant_id, bot.scopes, bot.datasets, outcome)
              = SearchedDatasets(bot.tenant_id, ActiveOnly, bot.datasets, outcome)

\* C7: inactive scopes change nothing: the guardrail decision, the retrieval
\* filter and its citations, the restriction prompt, the context-only test and
\* the system prompt built from them are those of the bot without its
\* inactive scopes, and a bot whose scopes are all inactive allows every
\* query like a bot without scopes
C7_InactiveScopesIgnored ==
    /\ Validated => SameDecision
    /\ (Validated /\ ActiveOnly = <<>>) =>
          /\ blocked = validate_query(<<>>, query)
          /\ gpc = "returned" => result = [allowed |-> TRUE, message |-> None]
    /\ gpc \in {"retrieved", "prompted"} =>
          /\ SameRetrievalFilter
          /\ \E outcome \in RetrievalOutcomes :
                citations = CitationsOf(SearchedDatasets(bot.tenant_id, ActiveOnly,
                                                         bot.datasets, outcome))
    /\ gpc = "prompted" =>
          /\ build_knowledge_restriction_prompt(bot.scopes)
                = build_knowledge_restriction_prompt(ActiveOnly)
          /\ should_use_context_only(bot.scopes) = should_use_context_only(ActiveOnly)
          /\ system_prompt = _build_system_prompt(ActiveOnly, citations)

\* a prompt was built from citations for a bot with an active scope and an
\* inactive one that, were it active, would block the query, filter the
\* datasets or switch on context-only answers
C7_Witness ==
    /\ gpc = "prompted"
    /\ citations # <<>>
    /\ ActiveOnly # <<>>
    /\ ~should_use_context_only(ActiveOnly)
    /\ \E i \in DOMAIN bot.scopes :
          /\ ~bot.scopes[i].is_active
          /\ bot.scopes[i].guardrails.knowledge_boundaries.strict_mode
          /\ bot.scopes[i].dataset_filters # NoFilters
          /\ ~validate_query(<<[bot.scopes[i] EXCEPT !.is_active = TRUE]>>, query).allowed

\* every scope of the bot is inactive and the query, which one of them would
\* block, went through
C7_AllInactiveAllowed ==
    /\ gpc = "returned"
    /\ result.allowed
    /\ bot.scopes # <<>>
    /\ ActiveOnly = <<>>
    /\ \E i \in DOMAIN bot.scopes :
          ~validate_query(<<[bot.scopes[i] EXCEPT !.is_active = TRUE]>>, query).allowed

\* ------------------------------------------------------------------------
\* Properties of the redirect messages
\* ------------------------------------------------------------------------
ViaFallback(v) == v \in {"custom_fallback", "template_fallback"}

BlockingGuardrails == bot.scopes[blocked.scope].guardrails

\* C8: when the completion call fails, the except branch of
\* _get_smart_response has a text to return for every blocked query (it does
\* not raise), no such text is empty, and validate_query returns
\* (False, non-empty message)
C8_FallbackReturnsText ==
    /\ gpc = "ai_call" =>
          LET texts == FallbackResponses(BlockingGuardrails, blocked.response_type)
          IN  texts # {} /\ \A text \in texts : text \notin {"", None}
    /\ (gpc = "returned" /\ ViaFallback(via)) =>
          ~result.allowed /\ result.message \notin {"", None}

\* the completion call failed on a block by forbidden topic of a scope with a
\* custom refusal message and two allowed topics, and a text came back
C8_Witness ==
    /\ gpc = "returned"
    /\ via = "custom_fallback"
    /\ blocked.response_type = "forbidden"
    /\ Len(BlockingGuardrails.allowed_topics) = 2
    /\ ~result.allowed
    /\ Len(result.message) > Len(CustomRefusal)

\* the completion call failed on a block of a scope without allowed topics
\* and the generic text came back
C8_GenericFallback ==
    /\ gpc = "returned"
    /\ via = "template_fallback"
    /\ BlockingGuardrails.allowed_topics = <<>>
    /\ result.message = "I can help with my specialized areas. What questions do you have?"

\* C9: the fallback is deterministic: the same query sent twice to the same
\* bot, blocked for the same reason with the completion call failing both
\* times, gets the same message both times
C9_FallbackDeterministic ==
    (gpc = "returned" /\ ViaFallback(via) /\ ViaFallback(prev.via)
        /\ prev.response_type = blocked.response_type)
        => result.message = prev.message

\* C10: a block for reason forbidden or off_topic by a scope with a custom
\* refusal_message returns a message produced from that custom message, and
\* the templated or generated reply is returned only when there is no custom
\* message or the reason is redirect or gentle_redirect
C10_CustomRefusalUsed ==
    (gpc = "returned" /\ ~result.allowed) =>
        LET custom_message == BlockingGuardrails.refusal_message
        IN  IF UsesCustomMessage(BlockingGuardrails, blocked.response_type)
            THEN /\ via = "custom_fallback"
                 /\ Len(result.message) >= Len(custom_message)
                 /\ SubSeq(result.message, 1, Len(custom_message)) = custom_message
            ELSE via \in {"ai", "template_fallback"}

\* ------------------------------------------------------------------------
\* Properties of the endpoint handlers
\* ------------------------------------------------------------------------
\* the request was answered with a refusal for scope reasons
Refused == response.refused_by \in {"validate_query", "generate_response"}

\* C11: on every entry point, a response that refuses the query for scope
\* reasons (validate_query blocked it, or generate_response found it out of
\* scope) is an assistant message carrying the refusal text, with no
\* citations and zero prompt, completion and total tokens
C11_RefusalShape ==
    Refused =>
        /\ response.role = "assistant"
        /\ response.content # None
        /\ response.citations = <<>>
        /\ response.usage = NoUsage

\* the part of C11 that holds: the refusals of validate_query have that shape
GuardrailRefusalShape ==
    response.refused_by = "validate_query" =>
        /\ response.role = "assistant"
        /\ response.content = result.message
        /\ response.citations = <<>>
        /\ response.usage = NoUsage

\* the rows of table messages the request under way has stored
StoredByRequest == {m \in messages : m.id[1] = requests}

\* C12: a turn the guardrail blocked does not end before the exchange is
\* stored: when the handler has returned the refusal of validate_query, table
\* messages holds the turn's user message and its assistant message
C12_BlockedTurnPersisted ==
    (tpc = "done" /\ response.refused_by = "validate_query") =>
        /\ \E m \in StoredByRequest : m.role = "request"
        /\ \E m \in StoredByRequest : m.role = "assistant"

\* what the handlers do instead: a blocked turn ends with nothing stored and
\* without a call of _get_or_create_conversation
BlockedTurnStoresNothing ==
    response.refused_by = "validate_query" =>
        /\ StoredByRequest = {}
        /\ served = <<>>
        /\ conversation = NoConversation

\* an allowed turn that ran to its end has stored its assistant message
AnsweredTurnPersisted ==
    (tpc = "done" /\ response.refused_by \in {None, "generate_response"}) =>
        \E m \in StoredByRequest : m.role = "assistant"

\* the handler has called retrieve_context or generate_response
GuardedCalls == {"retrieve_context", "generate_response"}
CalledGuarded == \E i \in DOMAIN served : served[i] \in GuardedCalls

\* validate_query ran for the request under way and returned allowed = True
ValidatedAllowed == runs >= 1 /\ gpc = "returned" /\ result.allowed

\* C13: on every entry point and for every request, retrieve_context and
\* generate_response are called only after validate_query was evaluated for
\* the turn and returned allowed = True; after allowed = False neither is called
C13_ValidatedBeforeServices ==
    /\ CalledGuarded => ValidatedAllowed
    /\ (gpc = "returned" /\ ~result.allowed) => ~CalledGuarded

\* the part of C13 that holds: what validate_query blocked is never
\* retrieved for or generated for, and the handlers of chat.py validate every
\* request that holds a user message first
BlockedNeverServed ==
    /\ (gpc \in {"ai_call", "returned"} /\ ~blocked.allowed) => ~CalledGuarded
    /\ (CalledGuarded /\ entry # "send_message" /\ has_user) => ValidatedAllowed

\* the handler under way holds the result of _get_or_create_conversation
ConversationObtained ==
    /\ entry \notin {None, "send_message"}
    /\ tpc \in {"conversation", "retrieved", "generated", "done"}
    /\ conversation # NoConversation

\* the session id of the request names an active conversation of the bot
Resolves ==
    \E row \in conversations \ {conversation} :
        row.id = session_id /\ row.bot_id = BotId /\ row.is_active

\* the row of table conversations a message belongs to
ConversationOf(m) == CHOOSE row \in conversations : row.id = m.conversation_id

C15_TitleScheduledOnce ==
    \A c \in ConversationIds :
        /\ title_tasks[c] <= 1
        /\ title_tasks[c] = 1 =>
              \E t \in Turns : /\ pc[t] = "done"
                               /\ turn_conv[t] = c
                               /\ is_first_exchange[t]

\* turns that both read the conversation as empty have both scheduled a task
TitleScheduledTwice ==
    \E c \in ConversationIds, t, u \in Turns :
        /\ t # u
        /\ title_tasks[c] = 2
        /\ pc[t] = "done" /\ turn_conv[t] = c /\ is_first_exchange[t]
        /\ pc[u] = "done" /\ turn_conv[u] = c /\ is_first_exchange[u]

\* C16: a run of the background title task, whenever it happens and however
\* it ends, leaves the stored messages, the handler under way and its
\* response as they are; it is one attempt (no task is scheduled again), and
\* it either stores the generated title or leaves the title as it was
C16_TitleTaskIsolated ==
    [][\A c \in ConversationIds :
          GenerateTitleBackground(c) =>
              /\ messages' = messages
              /\ response' = response
              /\ turnVars' = turnVars
              /\ title_tasks' = title_tasks
              /\ title_attempts'[c] = title_attempts[c] + 1
              /\ title_attempts'[c] <= title_tasks[c]
              /\ title'[c] \in {title[c], "generated"}
              /\ \A outcome \in TitleOutcomes \ {"stored"} :
                    TitleAfter(c, outcome) = title[c]]_vars

\* the task of a conversation ran after the exchange was stored and failed:
\* the title is unset, the exchange and the response are there
C16_Witness ==
    \E c \in ConversationIds :
        /\ title_tasks[c] = 1
        /\ title_attempts[c] = 1
        /\ title[c] = None
        /\ Cardinality({m \in messages : m.conversation_id = c}) >= 2
        /\ response.role = "assistant"
        /\ response.session_id = c

\* ------------------------------------------------------------------------
\* Properties of retrieval
\* ------------------------------------------------------------------------
\* the handler under way has called retrieve_context
Retrieved == \E i \in DOMAIN served : served[i] = "retrieve_context"

CitedDatasets == {citations[i].dataset_id : i \in DOMAIN citations}

\* C17: for a bot with assigned datasets, whatever its scopes' dataset_filters
\* select, every citation retrieve_context returns comes from an assigned
\* dataset, on the keyword path and on the fallback path
C17_AssignedDatasetsOnly ==
    (Retrieved /\ bot.datasets # <<>> /\ ScopeFilters(bot.scopes) # {}) =>
        CitedDatasets \subseteq Range(bot.datasets)

\* the part of C17 that holds: a call that is given the bot's datasets cites
\* nothing else
AssignedDatasetsWhenPassed ==
    (Retrieved /\ bot.datasets # <<>> /\ entry # "chat_public_stream") =>
        CitedDatasets \subseteq Range(bot.datasets)

\* the datasets that satisfy the dataset_filters of some active scope
SelectedByScopes ==
    {d.id : d \in {x \in DatasetStore :
        \E f \in ScopeFilters(bot.scopes) : f.tags \cap x.tags # {}}}

\* retrieve_context has returned to the allowed turn
ContextRetrieved == gpc \in {"retrieved", "prompted"}

\* C18: for a bot without assigned datasets and with an active scope whose
\* dataset_filters are not empty, every citation comes from a dataset that
\* satisfies the filters of some active scope; all active datasets of the
\* tenant are searched only when the bot has neither datasets nor filters
C18_ScopeFiltersSelect ==
    (ContextRetrieved /\ bot.datasets = <<>> /\ ScopeFilters(bot.scopes) # {}) =>
        CitedDatasets \subseteq SelectedByScopes

\* what the keyword search does instead: without assigned datasets it cites
\* from the active datasets of the tenant, filters or not
TenantWideWithoutDatasets ==
    (ContextRetrieved /\ bot.datasets = <<>>) =>
        CitedDatasets \subseteq
            {d.id : d \in {x \in DatasetStore : x.tenant_id = bot.tenant_id /\ x.is_active}}

\* C19: whatever document processing has stored, every chunk retrieve_context
\* returns has an embedding and belongs to a document whose status is
\* "completed": a chunk with a null embedding, or of a pending, processing or
\* failed document, is never returned
C19_EmbeddedCompletedOnly ==
    \A h \in hits :
        /\ h.chunk.embedding # "null"
        /\ h.document_status = "completed"

\* the part of C19 that holds: only chunks of completed documents are returned
CompletedDocumentsOnly == \A h \in hits : h.document_status = "completed"

\* the searches of retrieve_context failed, or the tenant has no active dataset
RetrievalFailed == retrieval \in {"embedding_error", "fallback_error"}
NoActiveDataset == ~\E d \in DatasetStore : d.tenant_id = bot.tenant_id /\ d.is_active

\* C20: retrieve_context never raises: when the tenant has no active dataset,
\* when the embedding call raises and when the keyword query and the fallback
\* query raise, it returns the empty list, and the turn goes on to response
\* generation with no citations
C20_RetrievalNeverRaises ==
    [][/\ RetrieveContext =>
             /\ gpc' = "retrieved"
             /\ (RetrievalFailed' \/ NoActiveDataset) => citations' = <<>>
       /\ (BuildSystemPrompt /\ (RetrievalFailed \/ NoActiveDataset)) =>
             /\ citations' = <<>>
             /\ system_prompt' = _build_system_prompt(bot.scopes, <<>>)]_vars

\* a turn whose embedding call raised has reached generation without citations
C20_Witness ==
    /\ gpc = "prompted"
    /\ retrieval = "embedding_error"
    /\ citations = <<>>
    /\ system_prompt # ""

\* C21: when the embedding of the query cannot be generated and the chunk
\* store answers, retrieve_context falls back to keyword matching and returns
\* the matching chunks of the selected datasets; it returns the empty list
\* only if the keyword search fails too or finds nothing
C21_KeywordFallbackOnEmbeddingFailure ==
    (ContextRetrieved /\ retrieval = "embedding_error"
        /\ ~FilterRaises(bot.scopes, bot.datasets)) =>
        CitedDatasets = basic_query(bot.tenant_id, bot.datasets)

\* what the code does instead: a failed embedding call ends retrieve_context
\* with the empty list, whatever the keyword search would have found
EmbeddingFailureReturnsEmpty ==
    (ContextRetrieved /\ retrieval = "embedding_error") => citations = <<>>

\* ------------------------------------------------------------------------
\* Properties of generation
\* ------------------------------------------------------------------------

\* C22: on every generation path the completion goes to the provider named
\* on the bot's credential record; when that provider is not openai the
\* request ends in an error before anything is sent to a provider, with no
\* answer and no message stored
C22_ProviderOfBot ==
    /\ \A i \in DOMAIN provider_calls : provider_calls[i].provider = ai_provider
    /\ ai_provider # "openai" =>
          /\ provider_calls = <<>>
          /\ response.role # "assistant"
          /\ StoredByRequest = {}

\* the part AIProviderService keeps: its handlers send to the provider of the
\* bot's record with the key of that record, and end at get_client without a
\* call, an answer or a stored message when the provider is not openai
ProviderOfBotInAIProviderService ==
    (entry # None /\ ~UsesChatService(entry)) =>
        /\ \A i \in DOMAIN provider_calls :
              /\ provider_calls[i].provider = ai_provider
              /\ provider_calls[i].api_key = "ai_provider.api_key"
        /\ ai_provider # "openai" =>
              /\ provider_calls = <<>>
              /\ response.role # "assistant"
              /\ StoredByRequest = {}
              /\ tpc = "done" => response.refused_by \in {"NotImplementedError", "ValueError"}

C24_StreamStoredAfterConsumed ==
    [][/\ messages' # messages => (tpc = "generated" /\ tpc' = "done")
       /\ (tpc = "streaming" /\ tpc' = "done") =>
             (frames' = frames /\ messages' = messages)
       /\ response'.refused_by \in StreamAborts =>
             {m \in messages' : m.id[1] = requests'} = {}]_vars

\* a stream that ended early after a token frame was sent, in a second turn
C24_Witness ==
    /\ tpc = "done"
    /\ response.refused_by \in StreamAborts
    /\ TokensEmitted >= 1
    /\ requests = 2
    /\ messages # {}
    /\ StoredByRequest = {}

\* one start frame with a session id first, at most one citations frame next,
\* then token frames only, one done frame last
WellFormedStream(fs) ==
    /\ Len(fs) >= 2
    /\ fs[1].type = "start"
    /\ fs[1].session_id # None
    /\ fs[Len(fs)].type = "done"
    /\ \A i \in 2..(Len(fs) - 1) :
          \/ fs[i].type = "token"
          \/ fs[i].type = "citations" /\ i = 2

\* the stream handler has sent its last frame of an answer or a refusal
StreamCompleted ==
    /\ entry # None
    /\ Streams(entry)
    /\ tpc = "done"
    /\ response.role = "assistant"

\* C25: every stream that runs to its end, of an allowed query or of one the
\* guardrail blocked, is one start frame with the session id, at most one
\* citations frame, any number of token frames and one done frame with the
\* usage, in this order and with no frame of another type
C25_StreamFrames ==
    StreamCompleted => WellFormedStream(frames)

\* the part that holds: the streams of the queries validate_query allowed
AllowedStreamFrames ==
    (StreamCompleted /\ response.refused_by # "validate_query") =>
        /\ WellFormedStream(frames)
        /\ frames[1].session_id = conversation.id
        /\ frames[Len(frames)].usage = response.usage

\* what a blocked stream is instead: start, content, end
BlockedStreamFrames ==
    (StreamCompleted /\ response.refused_by = "validate_query") =>
        /\ [i \in 1..Len(frames) |-> frames[i].type] = <<"start", "content", "end">>
        /\ frames[1].session_id = IF session_id # None THEN session_id ELSE "temp"

\* ------------------------------------------------------------------------
\* Properties of the system prompt
\* ------------------------------------------------------------------------

\* s.endswith(suffix)
EndsWith(s, suffix) ==
    /\ Len(s) >= Len(suffix)
    /\ SubSeq(s, Len(s) - Len(suffix) + 1, Len(s)) = suffix

\* some active scope of the bot sets knowledge_boundaries.strict_mode
StrictModeActive ==
    \E i \in DOMAIN bot.scopes :
        /\ bot.scopes[i].is_active
        /\ bot.scopes[i].guardrails.knowledge_boundaries.strict_mode

\* a system prompt was built for a turn with citations
PromptWithContext == gpc = "prompted" /\ citations # <<>>

\* C26: on every generation path, the context block of a system prompt built
\* with citations ends with the context-only directive if and only if some
\* active scope sets strict_mode, and with the directive to use the context
\* and cite the sources otherwise
C26_ContextDirective ==
    PromptWithContext =>
        IF StrictModeActive
        THEN EndsWith(system_prompt, ContextOnlyDirective)
        ELSE /\ Contains(UseContextDirective, system_prompt)
             /\ ~Contains(ContextOnlyDirective, system_prompt)

\* the part that holds: the prompts AIProviderService builds
ContextDirectiveInAIProviderService ==
    (PromptWithContext /\ ~UsesChatService(entry)) =>
        IF StrictModeActive
        THEN EndsWith(system_prompt, ContextOnlyDirective)
        ELSE EndsWith(system_prompt, UseContextDirective)

\* what ChatService does instead: one directive for every bot
ChatServiceSingleDirective ==
    (PromptWithContext /\ UsesChatService(entry)) =>
        EndsWith(system_prompt, ChatServiceDirective)

\* ------------------------------------------------------------------------
\* Properties of stored history
\* ------------------------------------------------------------------------

\* C27: over turns that do not overlap, every submitted message is stored
\* once: a turn adds the request message(s) it newly submitted and one
\* assistant message, and never stores again what an earlier turn stored,
\* whether the server put that history before the request or the client sent
\* it again
C27_OnlyNewMessagesStored ==
    [][messages' # messages =>
          Cardinality(messages' \ messages) = RequestMessages(entry, has_user) + 1]_vars

\* what the handlers store: the context chat_public prepended, the submitted
\* message and the answer
PrependedContextStoredAgain ==
    [][messages' # messages =>
          Cardinality(messages' \ messages) =
              PrependedMessages(entry, has_user, session_id)
                  + RequestMessages(entry, has_user) + 1]_vars

\* the part that holds: the endpoints that do not go through chat_public
\* store the submitted message and the answer only
OnlyNewMessagesOutsideChatPublic ==
    [][(messages' # messages /\ entry \notin {"chat_public", "chat_public_stream"}) =>
          Cardinality(messages' \ messages) = RequestMessages(entry, has_user) + 1]_vars

\* ------------------------------------------------------------------------
\* Properties of retrieval in the stream handlers
\* ------------------------------------------------------------------------

\* a stream handler has called retrieve_context
StreamRetrieved ==
    /\ entry # None
    /\ Streams(entry)
    /\ retrieval # None
    /\ tpc \in {"retrieved", "streaming", "generated", "done"}

\* C28: the stream handler of an endpoint gives retrieve_context the inputs
\* its non-streaming handler gives (tenant, scopes, the bot's datasets), so
\* both cite from the same datasets; the citations of a bot with assigned
\* datasets come from those datasets in a stream too
C28_StreamRetrievesAsNonStreaming ==
    StreamRetrieved =>
        /\ BotDatasetsArgument(entry, bot) = BotDatasetsArgument(NonStreaming(entry), bot)
        /\ citations =
              CitationsOf(SearchedDatasets(bot.tenant_id, bot.scopes,
                    BotDatasetsArgument(NonStreaming(entry), bot), retrieval))
        /\ bot.datasets # <<>> => CitedDatasets \subseteq Range(bot.datasets)

\* the part that holds: the stream handler of the authenticated endpoint
AuthenticatedStreamRetrievesAsNonStreaming ==
    (StreamRetrieved /\ entry = "chat_stream") =>
        /\ BotDatasetsArgument(entry, bot) = BotDatasetsArgument(NonStreaming(entry), bot)
        /\ citations =
              CitationsOf(SearchedDatasets(bot.tenant_id, bot.scopes,
                    BotDatasetsArgument(NonStreaming(entry), bot), retrieval))
        /\ bot.datasets # <<>> => CitedDatasets \subseteq Range(bot.datasets)

\* ------------------------------------------------------------------------
\* Properties of tenant isolation
\* ------------------------------------------------------------------------

C30_AtMostLimit ==
    \A h \in hits : Cardinality(hits) <= h.limit

\* the part that holds: the keyword path keeps to the limit, the fallback
\* path to its own limit of three, and so both to the handlers' limit of five
KeywordWithinLimitFallbackWithinThree ==
    \A h \in hits :
        /\ h.outcome = "keyword_ok" => Cardinality(hits) <= h.limit
        /\ h.outcome = "keyword_error" => Cardinality(hits) <= FallbackLimit
        /\ h.limit = HandlerLimit => Cardinality(hits) <= h.limit

====
